---- MODULE Spec2Model ----
(***************************************************************************)
(* A model of fastapi_sso.sso.base.SSOBase: one provider instance shared   *)
(* by several callers (request handlers running as asyncio tasks).  The    *)
(* instance fields are the variables; every callback position between two  *)
(* awaits of the source is one action.                                     *)
(***************************************************************************)
EXTENDS Integers, Sequences, FiniteSets, TLC

\* ---------------------------------------------------------------- bounds
\* Callers (asyncio tasks) that share the provider instance, and the callers
\* when the order of the waiters is in question.
Callers == 2
MaxWaiting == 3
\* Scopes (or unscoped uses) one caller starts.
MaxLogins == 1
\* Calls (property reads, verify_and_process, process_login) made on the instance:
\* by callers of every kind, and by callers that all use async with.
MaxCalls == 2
MaxScopedCalls == 4
\* The largest length asked of get_code_verifier.
MaxLength == 131
\* Calls made on the instance when the login-URL calls are among them.
MaxLoginCalls == 2
\* Calls made on the instance when every operation is among them.
MaxAllCalls == 1

\* Python's None.
NoneV == 0

VARIABLES
    nprocs,              \* the number of callers in this run (never changes)
    cfg,                 \* class attributes of the adapter (never change)
    budget,              \* the calls the callers make in this run (never changes)
    scope,               \* self._scope (never changes)
    login_lock,          \* self._login_lock: asyncio.Lock (locked flag, FIFO waiters)
    in_stack,            \* self._in_stack
    oauth_client,        \* self._oauth_client: NoneV or a reference into clients
    clients,             \* the WebApplicationClient objects created so far
    refresh_token,       \* self._refresh_token
    id_token,            \* self._id_token
    state,               \* self._state
    generated_state,     \* self._generated_state
    pkce_code_verifier,  \* self._pkce_code_verifier
    pkce_code_challenge, \* self._pkce_code_challenge
    calls,               \* number of calls made on the instance so far
    task,                \* per caller: position, locals, warnings, result
    lastUse,             \* history: how the latest finished use of the instance ended
    entry,               \* history: what the __aenter__ of the scope in progress found
    redirect_uri,        \* self.redirect_uri, bound at construction (never changes)
    flow,                \* per caller: the get_login_url / get_login_redirect call
    length,              \* pkce.get_code_verifier: the requested length
    code_verifier,       \* pkce.get_code_verifier: the string returned
    provider,            \* the adapter class of the instance (never changes)
    document,            \* get_discovery_document() called directly: its outcome
    accessed,            \* an endpoint accessor awaited directly: its outcome
    response,            \* openid_from_response: the userinfo payload handed over
    openid,              \* openid_from_response: its outcome
    allow_insecure_http, \* self.allow_insecure_http (never changes)
    insecure_transport,  \* os.environ has OAUTHLIB_INSECURE_TRANSPORT (never changes)
    request_url,         \* str(request.url) of the callbacks of this run (never changes)
    arg_redirect_uri,    \* the redirect_uri argument of the exchanges (never changes)
    caller_params,       \* the dict a caller passes as params to every exchange
    caller_headers,      \* the dict a caller passes as headers to every exchange
    jar                  \* the browser: cookie and URL of the latest redirect followed

vars == <<nprocs, cfg, budget, scope, login_lock, in_stack, oauth_client, clients, refresh_token, id_token,
          state, generated_state, pkce_code_verifier, pkce_code_challenge, calls,
          task, lastUse, entry, redirect_uri, flow, length, code_verifier,
          provider, document, accessed, response, openid, allow_insecure_http,
          insecure_transport, request_url, arg_redirect_uri, caller_params,
          caller_headers, jar>>

\* The callers of this run.
Procs == 1 .. nprocs

\* The fields the spec calls the session state of the instance.
session == <<oauth_client, clients, refresh_token, id_token, state>>
pkce == <<pkce_code_verifier, pkce_code_challenge>>
hist == <<lastUse, entry>>
static == <<nprocs, cfg, budget, scope, allow_insecure_http, insecure_transport, request_url,
            arg_redirect_uri>>
\* What the login-URL calls use; the input and output of get_code_verifier; the
\* adapter class with the inputs and outcomes of its methods called directly.
login == <<redirect_uri, flow>>
adapter == <<provider, document, accessed, response, openid>>
direct == <<length, code_verifier, adapter>>
\* The mappings of the caller, and everything an action of scope entry or exit
\* leaves alone.
caller == <<caller_params, caller_headers>>
helper == <<direct, caller, jar>>

\* ------------------------------------------------------------ adapters
\* The flag combinations of the adapters: the base class, a PKCE adapter (Tidal),
\* an ID-token adapter (Apple) and a configured one with every flag set.
Adapter(rs, pk, idt) ==
    [requires_state |-> rs, uses_pkce |-> pk, use_id_token_for_user_info |-> idt]
Adapters == {Adapter(FALSE, FALSE, FALSE), Adapter(FALSE, TRUE, FALSE),
             Adapter(FALSE, FALSE, TRUE), Adapter(TRUE, TRUE, TRUE)}

\* ------------------------------------------------------------ requests
\* A callback request: query_params (code, state), the form body of a POST
\* (code, state) and the pkce_code_verifier cookie.  NoneV is "absent".
CallbackState == 900
CookieVerifier == 901
\* Arguments of the login-URL calls: a caller-supplied state, the empty string,
\* a redirect URI given at call time and one bound at construction; the text "None".
UserState == 902
CallUri == 903
BoundUri == 904
EmptyStr == 905
NoneStr == 906
Requests == [code_in : {"query", "form", "none"}, state : {NoneV, CallbackState},
             cookie : BOOLEAN]

\* An outgoing request: the token request with its code_verifier, or the userinfo
\* request with its bearer token.
\* The redirect URL of a token request: a URI given as a string (the argument
\* or the one bound at construction), or the path of the callback request.
RedirectUrl(uri, path) == [uri |-> uri, path |-> path]
NoReq ==
    [kind |-> "none", tok |-> NoneV, verifier |-> NoneV,
     redirect_url |-> RedirectUrl(NoneV, <<>>), authorization_response |-> <<>>]
TokenRequest(ver, redirect_url, authorization_response) ==
    [kind |-> "token", tok |-> NoneV, verifier |-> ver,
     redirect_url |-> redirect_url, authorization_response |-> authorization_response]
UserinfoRequest(tok) == [NoReq EXCEPT !.kind = "userinfo", !.tok = tok]

\* A token response body: which of the three tokens it carries.
RespKinds == {"full", "access_only", "error"}
\* The three tokens of the n-th token response the provider issues.
AccessTok(n) == 10 * n + 1
RefreshTok(n) == 10 * n + 2
IdTok(n) == 10 * n + 3
content(n, kind) ==
    [access_token |-> IF kind = "error" THEN NoneV ELSE AccessTok(n),
     refresh_token |-> IF kind = "full" THEN RefreshTok(n) ELSE NoneV,
     id_token |-> IF kind = "full" THEN IdTok(n) ELSE NoneV]

NoResult == [kind |-> "none", src |-> "none", val |-> NoneV]
Returned(src, v) == [kind |-> "returned", src |-> src, val |-> v]
Raised(err) == [kind |-> "raised", src |-> err, val |-> NoneV]

\* A fresh WebApplicationClient(client_id): no token yet.
WebApplicationClient == [access_token |-> NoneV, refresh_token |-> NoneV]

\* A caller: where it is (pc), how it uses the instance (mode), the call in progress
\* or last finished (call, its result; code_in: where the callback it handed over
\* carried the code), warns: the warnings its latest step emitted, the locals of the
\* exchange (convert, verifier, the client captured by a bound method, the request
\* on the wire) and got, the access token of the token response its latest
\* exchange received (got_id: its ID token, kept until the exchange ends), and
\* fetched: how many times the call awaited get_discovery_document so far.
Task0 == [pc |-> "idle", mode |-> "none", logins |-> 0, ops |-> 0, serial |-> 0,
          call |-> "none",
          code_in |-> "none", convert |-> TRUE, verifier |-> NoneV, cref |-> NoneV,
          got |-> NoneV, got_id |-> NoneV, warns |-> {}, result |-> NoResult,
          wire |-> NoReq, fetched |-> 0]

\* self.client_id as the tests construct the instance.
client_id == "client_id"

\* None among strings, and the dict with no key.
None == "<None>"
NoDocument == [k \in {} |-> None]

\* A login URL: the endpoint it starts with and the query parameters
\* prepare_request_uri was given and kept.
NoUrl == [base |-> None, client_id |-> None, redirect_uri |-> NoneV, scope |-> "",
          state |-> NoneV, code_challenge |-> NoneV,
          code_challenge_method |-> "none", params |-> NoDocument]
NoCookie == [set |-> FALSE, value |-> NoneV]
\* What a login-URL call returned: the URL string of get_login_url (no status), or
\* the RedirectResponse of get_login_redirect with its Location and cookie.
NoResponse == [status |-> NoneV, location |-> NoUrl, cookie |-> NoCookie]

\* A caller's login-URL call: the arguments redirect_uri, state and params as
\* given (params None or {}: no key), the locals redirect_uri (uri) and state
\* (url_state) of get_login_url when it awaits the authorization endpoint, and
\* what the call returned.
Flow0 == [redirect_uri |-> NoneV, state |-> NoneV, params |-> NoDocument,
          uri |-> NoneV, url_state |-> NoneV, response |-> NoResponse]

\* ---------------------------------------------------------------- helpers
\* The client objects live in slots; a slot nothing refers to is collected.
Slots == 1 .. (Cardinality(Procs) + 2)
Heap0 == [s \in Slots |-> WebApplicationClient]
Live(oc, tsk) == {oc} \cup {tsk[q].cref : q \in Procs}
Collect(heap, oc, tsk) ==
    [s \in Slots |-> IF s \in Live(oc, tsk) THEN heap[s] ELSE WebApplicationClient]
FreeSlot == CHOOSE s \in Slots :
                /\ s \notin Live(oauth_client, task)
                /\ \A r \in Slots : r < s => r \in Live(oauth_client, task)

\* The serial number of caller p's n-th use of the instance: names what the random
\* source hands out there, so that any two draws differ.
Scope(p, n) == p * (MaxLogins + 1) + n

\* requires_async_context: the warnings the wrapper emits before calling through.
requires_async_context(stack) == IF ~stack THEN {"SecurityWarning"} ELSE {}

\* Mutant: the property builds a new client on every access.
oauth_client_prop_uncached(oc, heap) ==
    [ref |-> FreeSlot, heap |-> [heap EXCEPT ![FreeSlot] = WebApplicationClient]]

\* The oauth_client property: the handle is created on first access and stored.
\* Returns the handle and the heap of client objects after the access.
oauth_client_prop(oc, heap) ==
    IF oc = NoneV
    THEN [ref |-> FreeSlot, heap |-> [heap EXCEPT ![FreeSlot] = WebApplicationClient]]
    ELSE [ref |-> oc, heap |-> heap]

\* generate_random_state(): an unpredictable value, distinct from every other draw.
generate_random_state(draw) == 2 * draw

\* base64url_nopad(SHA256(verifier)): an injective image disjoint from the verifiers.
S256(verifier) == 1000 + verifier

\* Mutant: the challenge is the verifier itself (the "plain" method).
get_pkce_challenge_pair_plain(draw) ==
    [verifier |-> 2 * draw + 1, challenge |-> 2 * draw + 1]

\* get_pkce_challenge_pair(): a random verifier and its S256 challenge.
get_pkce_challenge_pair(draw) ==
    [verifier |-> 2 * draw + 1, challenge |-> S256(2 * draw + 1)]

\* Mutant: __aenter__ forgets to reset the refresh token and the ID token.
aenter_fields_keep_tokens(draw) ==
    LET pk == IF cfg.uses_pkce THEN get_pkce_challenge_pair(draw)
              ELSE [verifier |-> pkce_code_verifier, challenge |-> pkce_code_challenge]
    IN [in_stack |-> TRUE, oauth_client |-> NoneV, refresh_token |-> refresh_token,
        id_token |-> id_token, state |-> NoneV,
        generated_state |-> IF cfg.requires_state THEN generate_random_state(draw)
                            ELSE generated_state,
        pkce_code_verifier |-> pk.verifier, pkce_code_challenge |-> pk.challenge]

\* Mutant: __aenter__ generates a state only when the instance has none.
aenter_fields_stale_state(draw) ==
    LET pk == IF cfg.uses_pkce THEN get_pkce_challenge_pair(draw)
              ELSE [verifier |-> pkce_code_verifier, challenge |-> pkce_code_challenge]
    IN [in_stack |-> TRUE, oauth_client |-> NoneV, refresh_token |-> NoneV,
        id_token |-> NoneV, state |-> NoneV,
        generated_state |-> IF cfg.requires_state /\ generated_state = NoneV
                            THEN generate_random_state(draw)
                            ELSE generated_state,
        pkce_code_verifier |-> pk.verifier, pkce_code_challenge |-> pk.challenge]

\* The field assignments of __aenter__ after the lock was acquired.
aenter_fields(draw) ==
    LET pk == IF cfg.uses_pkce THEN get_pkce_challenge_pair(draw)
              ELSE [verifier |-> pkce_code_verifier, challenge |-> pkce_code_challenge]
    IN [in_stack |-> TRUE, oauth_client |-> NoneV, refresh_token |-> NoneV,
        id_token |-> NoneV, state |-> NoneV,
        generated_state |-> IF cfg.requires_state THEN generate_random_state(draw)
                            ELSE generated_state,
        pkce_code_verifier |-> pk.verifier, pkce_code_challenge |-> pk.challenge]

\* Mutant: the synchronous entry marks the instance as inside a scope and keeps
\* the captured state.
enter_fields_as_scope(draw) ==
    LET pk == IF cfg.uses_pkce THEN get_pkce_challenge_pair(draw)
              ELSE [verifier |-> pkce_code_verifier, challenge |-> pkce_code_challenge]
    IN [in_stack |-> TRUE, oauth_client |-> NoneV, refresh_token |-> NoneV,
        id_token |-> NoneV, state |-> state,
        generated_state |-> IF cfg.requires_state THEN generate_random_state(draw)
                            ELSE generated_state,
        pkce_code_verifier |-> pk.verifier, pkce_code_challenge |-> pk.challenge]

\* The field assignments of the synchronous __enter__.
enter_fields(draw) ==
    LET pk == IF cfg.uses_pkce THEN get_pkce_challenge_pair(draw)
              ELSE [verifier |-> pkce_code_verifier, challenge |-> pkce_code_challenge]
    IN [in_stack |-> in_stack, oauth_client |-> NoneV, refresh_token |-> NoneV,
        id_token |-> NoneV, state |-> NoneV,
        generated_state |-> IF cfg.requires_state THEN generate_random_state(draw)
                            ELSE generated_state,
        pkce_code_verifier |-> pk.verifier, pkce_code_challenge |-> pk.challenge]

\* Mutant: __aenter__ goes on without the lock.
lock_ignored(lk) == TRUE

\* asyncio.Lock.acquire returns at once only when the lock is free and nobody waits.
lock_is_free(lk) == ~lk.locked /\ lk.waiters = <<>>

\* Mutant: a waiter goes on as soon as it is first in the queue.
can_resume_while_locked(lk, p) == lk.waiters # <<>> /\ Head(lk.waiters) = p

\* Mutant: release() wakes the waiter that came last.
can_resume_last(lk, p) ==
    ~lk.locked /\ lk.waiters # <<>> /\ lk.waiters[Len(lk.waiters)] = p

\* A waiter of asyncio.Lock.acquire goes on when release() has freed the lock and
\* it is the first in the queue.
can_resume(lk, p) == ~lk.locked /\ lk.waiters # <<>> /\ Head(lk.waiters) = p

\* Mutants: the exit hook cleans up only after a body that returned.
aexit_in_stack_unless_raised(raised) == raised
aexit_lock_unless_raised(lk, raised) ==
    IF raised THEN lk ELSE [lk EXCEPT !.locked = FALSE]

\* __aexit__: the in-scope flag and the lock after the exit hook, whatever exception
\* ended the scope.
aexit_in_stack(raised) == FALSE
aexit_lock(lk, raised) == [lk EXCEPT !.locked = FALSE]

SessionBlank ==
    /\ oauth_client = NoneV
    /\ refresh_token = NoneV
    /\ id_token = NoneV
    /\ state = NoneV

Assign(f) ==
    /\ in_stack' = f.in_stack
    /\ oauth_client' = f.oauth_client
    /\ refresh_token' = f.refresh_token
    /\ id_token' = f.id_token
    /\ state' = f.state
    /\ generated_state' = f.generated_state
    /\ pkce_code_verifier' = f.pkce_code_verifier
    /\ pkce_code_challenge' = f.pkce_code_challenge

InScope(p) == task[p].mode = "async" /\ task[p].pc \notin {"idle", "waiting"}
Suspended(p) == task[p].pc \in {"post", "userinfo_endpoint", "get"}

NoEntry == [dirty |-> FALSE, prev |-> "none"]

\* ---------------------------------------------------- pkce.get_code_verifier
Min(a, b) == IF a < b THEN a ELSE b
Max(a, b) == IF a > b THEN a ELSE b

\* base64.urlsafe_b64encode of n random bytes: ceil(4n/3) characters of the
\* alphabet, padded with "=" to a multiple of four.
urlsafe_b64encode(n) ==
    [i \in 1 .. 4 * ((n + 2) \div 3) |->
        IF i <= (4 * n + 2) \div 3 THEN "A" ELSE "="]

\* str.replace("=", "").
strip_padding(str) == SelectSeq(str, LAMBDA c : c # "=")

\* Mutant: the requested length is not clamped.
get_code_verifier_unclamped(len) ==
    LET bytes_length == (len * 3) \div 4
        str == strip_padding(urlsafe_b64encode(bytes_length))
    IN SubSeq(str, 1, Min(len, Len(str)))

\* get_code_verifier(length): the clamped length, int(length * 3 / 4) random
\* bytes encoded, the padding removed, the first `length` characters kept.
get_code_verifier(len) ==
    LET clamped == Max(43, Min(len, 128))
        bytes_length == (clamped * 3) \div 4
        str == strip_padding(urlsafe_b64encode(bytes_length))
    IN SubSeq(str, 1, Min(clamped, Len(str)))

\* ------------------------------------------- adapters: discovery, converters
\* A value of a JSON payload is written as a string, None as None and the
\* booleans as below; a dict is a record of its keys.
\* bool(v): the truth value Python gives a payload value.
bool(v) == v \notin {None, "False", ""}
\* dict.get(key), and dict.get(key, default).
get(d, key) == IF key \in DOMAIN d THEN d[key] ELSE None
get_default(d, key, default) == IF key \in DOMAIN d THEN d[key] ELSE default

\* What a call came to: the error raised ("none": it returned) and the value.
Outcome(err, val) == [err |-> err, val |-> val]

\* The adapter classes modelled: the base class, two adapters with a literal
\* three-endpoint document, the GitHub adapter and the Google adapter.
Providers == {"SSOBase", "fitbit", "tidal", "github", "google"}

Keys == {"authorization_endpoint", "token_endpoint", "userinfo_endpoint"}

fitbit_document ==
    [authorization_endpoint |-> "https://www.fitbit.com/oauth2/authorize?response_type=code",
     token_endpoint |-> "https://api.fitbit.com/oauth2/token",
     userinfo_endpoint |-> "https://api.fitbit.com/1/user/-/profile.json"]

tidal_document ==
    [authorization_endpoint |-> "https://login.tidal.com/authorize",
     token_endpoint |-> "https://auth.tidal.com/v1/oauth2/token",
     userinfo_endpoint |-> "https://openapi.tidal.com/v2/users/me"]

github_document ==
    [authorization_endpoint |-> "https://github.com/login/oauth/authorize",
     token_endpoint |-> "https://github.com/login/oauth/access_token",
     userinfo_endpoint |-> "https://api.github.com/user",
     email_endpoint |-> "https://api.github.com/user/emails"]

naver_document ==
    [authorization_endpoint |-> "https://nid.naver.com/oauth2.0/authorize",
     token_endpoint |-> "https://nid.naver.com/oauth2.0/token",
     userinfo_endpoint |-> "https://openapi.naver.com/v1/nid/me"]

\* GoogleSSO.get_discovery_document returns response.json() of a GET of
\* discovery_url as it is: what the server answers is not the adapter's choice.
\* Here: an OpenID configuration, and a body that is none.
google_responses ==
    {[issuer |-> "https://accounts.google.com",
      authorization_endpoint |-> "https://accounts.google.com/o/oauth2/v2/auth",
      token_endpoint |-> "https://oauth2.googleapis.com/token",
      userinfo_endpoint |-> "https://openidconnect.googleapis.com/v1/userinfo"],
     [error |-> "backend unavailable"]}

\* Mutant: an adapter with no discovery implementation has an empty document.
get_discovery_document_empty(prov) ==
    CASE prov = "fitbit" -> {Outcome("none", fitbit_document)}
      [] prov = "tidal" -> {Outcome("none", tidal_document)}
      [] prov = "github" -> {Outcome("none", github_document)}
      [] prov = "google" -> {Outcome("none", d) : d \in google_responses}
      [] prov = "naver" -> {Outcome("none", naver_document)}
      [] OTHER -> {Outcome("none", NoDocument)}

\* Mutant: the GitHub adapter leaves the token endpoint empty.
get_discovery_document_blank(prov) ==
    CASE prov = "fitbit" -> {Outcome("none", fitbit_document)}
      [] prov = "tidal" -> {Outcome("none", tidal_document)}
      [] prov = "github" -> {Outcome("none", [github_document EXCEPT !.token_endpoint = ""])}
      [] prov = "google" -> {Outcome("none", d) : d \in google_responses}
      [] prov = "naver" -> {Outcome("none", naver_document)}
      [] OTHER -> {Outcome("NotImplementedError", NoDocument)}

\* The class attribute scope of the adapter, and self._scope as __init__ sets it
\* from its argument (None or an empty list: no name), line 143.
class_scope(prov) ==
    CASE prov = "fitbit" -> <<"profile">>
      [] prov = "tidal" -> <<"user.read">>
      [] prov = "github" -> <<"user:email">>
      [] prov = "google" -> <<"openid", "email", "profile">>
      [] OTHER -> <<>>
init_scope(arg, prov) == IF arg # <<>> THEN arg ELSE class_scope(prov)

\* await adapter.get_discovery_document(): the outcomes it can have.
get_discovery_document(prov) ==
    CASE prov = "fitbit" -> {Outcome("none", fitbit_document)}
      [] prov = "tidal" -> {Outcome("none", tidal_document)}
      [] prov = "github" -> {Outcome("none", github_document)}
      [] prov = "google" -> {Outcome("none", d) : d \in google_responses}
      [] prov = "naver" -> {Outcome("none", naver_document)}
      [] OTHER -> {Outcome("NotImplementedError", NoDocument)}

\* The accessors authorization_endpoint, token_endpoint, userinfo_endpoint: each
\* awaits get_discovery_document() anew and takes its key with dict.get.
endpoint(prov, key) ==
    {Outcome(d.err, IF d.err = "none" THEN get(d.val, key) ELSE None) :
        d \in get_discovery_document(prov)}

\* The OpenID model: every field optional; email, if given, must be an address.
Fields == {"id", "email", "first_name", "last_name", "display_name", "picture",
           "provider"}
Emails == {"test@example.com"}
OpenID(given) ==
    IF get(given, "email") \notin Emails \cup {None}
    THEN Outcome("ValidationError", [k \in Fields |-> None])
    ELSE Outcome("none", [k \in Fields |-> get(given, k)])

\* Raising err in place of returning a record.
raise(err) == Outcome(err, [k \in Fields |-> None])

\* GithubSSO.openid_from_response: the primary verified address is looked for in
\* response.get("email"), taken to be a list of address records.  The value of the
\* key is given with its Python type: a str, a list, or None if the key is absent.
github_openid(resp) ==
    LET e == resp.email
        primary == SelectSeq(e.list, LAMBDA m : m.verified /\ m.primary)
        primary_email == IF primary = <<>> THEN "" ELSE primary[Len(primary)].email
    IN IF e.type = "NoneType" \/ (e.type = "str" /\ e.str # "")
       THEN raise("TypeError")
       ELSE OpenID([provider |-> "github", id |-> get(resp, "id"),
                    email |-> primary_email,
                    display_name |-> get(resp, "login"),
                    picture |-> get(resp, "avatar_url")])

\* TidalSSO.openid_from_response: the record is read from response["data"] and
\* its "attributes".
tidal_openid(resp) ==
    IF "data" \notin DOMAIN resp THEN raise("KeyError")
    ELSE IF "attributes" \notin DOMAIN resp.data THEN raise("KeyError")
    ELSE OpenID([id |-> get(resp.data, "id"),
                 display_name |-> get(resp.data.attributes, "username"),
                 email |-> get(resp.data.attributes, "email"),
                 provider |-> "tidal"])

\* Mutant: Google's converter takes the address as it comes.
google_openid_unverified(resp) ==
    OpenID([email |-> get_default(resp, "email", ""), provider |-> "google",
            id |-> get(resp, "sub"), first_name |-> get(resp, "given_name"),
            last_name |-> get(resp, "family_name"),
            display_name |-> get(resp, "name"), picture |-> get(resp, "picture")])

\* GoogleSSO.openid_from_response.
google_openid(resp) ==
    IF ~bool(get(resp, "email_verified"))
    THEN raise("SSOLoginError401")
    ELSE OpenID([email |-> get_default(resp, "email", ""), provider |-> "google",
                 id |-> get(resp, "sub"), first_name |-> get(resp, "given_name"),
                 last_name |-> get(resp, "family_name"),
                 display_name |-> get(resp, "name"),
                 picture |-> get(resp, "picture")])

\* FitbitSSO.openid_from_response: a missing or empty user object is a failed
\* login; the four keys of the object are subscripted.
fitbit_openid(resp) ==
    IF "user" \notin DOMAIN resp \/ DOMAIN resp.user = {}
    THEN raise("SSOLoginError401")
    ELSE IF ~({"encodedId", "fullName", "displayName", "avatar"}
                \subseteq DOMAIN resp.user)
    THEN raise("KeyError")
    ELSE OpenID([id |-> resp.user.encodedId, first_name |-> resp.user.fullName,
                 display_name |-> resp.user.displayName,
                 picture |-> resp.user.avatar, provider |-> "fitbit"])

\* await adapter.openid_from_response(response): the adapter's converter, or the
\* base class's, which raises.
openid_from_response(prov, resp) ==
    CASE prov = "fitbit" -> fitbit_openid(resp)
      [] prov = "tidal" -> tidal_openid(resp)
      [] prov = "github" -> github_openid(resp)
      [] prov = "google" -> google_openid(resp)
      [] OTHER -> raise("NotImplementedError")

\* The userinfo payloads handed to the converters: the fixtures of the tests and
\* payloads of the shapes the converters read.
GithubEmail(type, s, list) == [type |-> type, str |-> s, list |-> list]
GithubFixture ==
    [email |-> GithubEmail("str", "test@example.com", <<>>), id |-> "test",
     login |-> "testuser", avatar_url |-> "https://myimage"]
TidalFixture ==
    [id |-> "123456", firstName |-> "Test", lastName |-> "User",
     username |-> "testuser", email |-> "test@example.com"]
FitbitFixture ==
    [user |-> [encodedId |-> "test", fullName |-> "Test",
               displayName |-> "Test User", avatar |-> "https://myimage"]]
GoogleFixture ==
    [email |-> "test@example.com", sub |-> "1", given_name |-> "Test",
     family_name |-> "User", name |-> "Test User", picture |-> "https://myimage",
     email_verified |-> "True"]

Payloads(prov) ==
    CASE prov = "github" ->
           {GithubFixture,
            [GithubFixture EXCEPT !.email = GithubEmail("NoneType", "", <<>>)],
            [GithubFixture EXCEPT !.email = GithubEmail("str", "", <<>>)]}
           \cup {[GithubFixture EXCEPT !.email =
                    GithubEmail("list", "",
                                <<[email |-> "other@example.com", verified |-> v,
                                   primary |-> FALSE],
                                  [email |-> "test@example.com", verified |-> v,
                                   primary |-> TRUE]>>)] : v \in BOOLEAN}
      [] prov = "tidal" ->
           {TidalFixture,
            [data |-> [id |-> "123456",
                       attributes |-> [username |-> "testuser",
                                       email |-> "test@example.com"]]],
            [data |-> [id |-> "123456"]]}
      [] prov = "google" ->
           {[GoogleFixture EXCEPT !.email_verified = v] :
                v \in {"True", "False", None, ""}}
           \cup {[email |-> "test@example.com", sub |-> "1"],
                 [sub |-> "1", email_verified |-> "True"]}
      [] prov = "fitbit" ->
           {FitbitFixture, [user |-> NoDocument],
            [user |-> [encodedId |-> "test"]],
            [errors |-> "invalid_token"]}
      [] OTHER -> {NoDocument, FitbitFixture}

\* ------------------------------------------------------------------- Init
FreshFor(n) ==
    /\ nprocs = n
    /\ cfg \in Adapters
    /\ login_lock = [locked |-> FALSE, waiters |-> <<>>]
    /\ in_stack = FALSE
    /\ oauth_client = NoneV
    /\ clients = Heap0
    /\ refresh_token = NoneV
    /\ id_token = NoneV
    /\ state = NoneV
    /\ generated_state = NoneV
    /\ pkce_code_verifier = NoneV
    /\ pkce_code_challenge = NoneV
    /\ calls = 0
    /\ task = [p \in Procs |-> Task0]
    /\ lastUse = "fresh"
    /\ entry = NoEntry

Fresh == FreshFor(Callers)

\* No redirect URI bound, no login-URL call made; get_code_verifier not in use.
NoLogin == redirect_uri = NoneV /\ flow = [p \in Procs |-> Flow0]
\* No method of the adapter has been called directly.
Uncalled ==
    /\ document = Outcome("uncalled", NoDocument)
    /\ accessed = [key |-> "none", err |-> "uncalled", val |-> None]
    /\ response = NoDocument
    /\ openid = raise("uncalled")
\* The browser has followed no redirect yet.
NoJar == [cookie |-> NoneV, code_challenge |-> NoneV]
\* Callbacks arrive over https; the exchanges are called with no redirect_uri,
\* params or headers; insecure transport is not allowed.
CallbackUrl == <<"https://", "localhost", "/callback", "?code=code&state=state">>
Plain ==
    /\ allow_insecure_http = FALSE /\ insecure_transport = FALSE
    /\ request_url = CallbackUrl /\ arg_redirect_uri = NoneV
    /\ caller_params = NoDocument /\ caller_headers = NoDocument
    /\ jar = NoJar
\* The instance is of an adapter with a literal three-endpoint document (Fitbit's
\* stands for them); get_code_verifier and the adapter's methods are not in use.
NoHelper ==
    /\ length = 0 /\ code_verifier = <<>>
    /\ provider = "fitbit" /\ scope = init_scope(<<>>, provider)
    /\ Uncalled /\ Plain

Init == Fresh /\ budget = MaxCalls /\ NoLogin /\ NoHelper

InitScoped == Fresh /\ budget = MaxScopedCalls /\ NoLogin /\ NoHelper

\* ------------------------------------------------------- scope entry, exit
\* Callers are interchangeable: they are numbered in the order of their first use.
CanBegin(p) ==
    /\ task[p].pc = "idle"
    /\ task[p].logins < MaxLogins
    /\ \A q \in Procs : q < p => task[q].logins > 0

Begin(p, how, at) ==
    [Task0 EXCEPT !.pc = at, !.mode = how, !.logins = task[p].logins + 1]

End(p) == [Task0 EXCEPT !.logins = task[p].logins]

Entered(p, n) ==
    /\ Assign(aenter_fields(Scope(p, n)))
    /\ clients' = Collect(clients, NoneV, task')
    /\ entry' = [dirty |-> ~SessionBlank, prev |-> lastUse]
    /\ UNCHANGED <<static, login, helper, calls, lastUse>>

\* async with provider: __aenter__ up to the return, when the lock is free;
\* otherwise the caller is queued inside asyncio.Lock.acquire.
AsyncEnter(p) ==
    /\ CanBegin(p)
    /\ IF lock_is_free(login_lock)
       THEN /\ login_lock' = [login_lock EXCEPT !.locked = TRUE]
            /\ task' = [task EXCEPT ![p] = Begin(p, "async", "body")]
            /\ Entered(p, task[p].logins + 1)
       ELSE /\ login_lock' = [login_lock EXCEPT !.waiters = Append(@, p)]
            /\ task' = [task EXCEPT ![p] = Begin(p, "async", "waiting")]
            /\ UNCHANGED <<static, login, helper, calls, in_stack, session, generated_state, pkce, hist>>

\* The first waiter is woken by release() and finishes __aenter__.
AcquireResume(p) ==
    /\ task[p].pc = "waiting"
    /\ can_resume(login_lock, p)
    /\ login_lock' = [locked |-> TRUE, waiters |-> Tail(login_lock.waiters)]
    /\ task' = [task EXCEPT ![p].pc = "body"]
    /\ Entered(p, task[p].logins)

\* A caller waiting in asyncio.Lock.acquire is cancelled: it leaves the queue and
\* the CancelledError leaves __aenter__, so the scope is never entered.
CancelWaiting(p) ==
    /\ task[p].pc = "waiting"
    /\ login_lock' = [login_lock EXCEPT
                        !.waiters = SelectSeq(login_lock.waiters, LAMBDA q : q # p)]
    /\ task' = [task EXCEPT ![p] = End(p)]
    /\ UNCHANGED <<static, login, helper, calls, in_stack, session, generated_state, pkce, hist>>

\* async with provider: awaited again by a caller that is in the body of its own
\* scope on the same instance.  asyncio.Lock keeps no owner: acquire() looks only
\* at the lock, finds it held, and queues the caller behind its own scope.
NestedEnter(p) ==
    /\ InScope(p)
    /\ task[p].pc = "body"
    /\ IF lock_is_free(login_lock)
       THEN /\ login_lock' = [login_lock EXCEPT !.locked = TRUE]
            /\ task' = [task EXCEPT ![p].pc = "nested"]
            /\ Entered(p, task[p].logins)
       ELSE /\ login_lock' = [login_lock EXCEPT !.waiters = Append(@, p)]
            /\ task' = [task EXCEPT ![p].pc = "reentering"]
            /\ UNCHANGED <<static, login, helper, calls, in_stack, session, generated_state, pkce, hist>>

\* The caller is cancelled while its inner acquire waits: it leaves the queue and
\* the CancelledError is raised in the body of the outer scope.
CancelNested(p) ==
    /\ task[p].pc = "reentering"
    /\ login_lock' = [login_lock EXCEPT
                        !.waiters = SelectSeq(login_lock.waiters, LAMBDA q : q # p)]
    /\ task' = [task EXCEPT ![p].pc = "raised", ![p].warns = {},
                            ![p].result = Raised("CancelledError")]
    /\ UNCHANGED <<static, login, helper, calls, in_stack, session, generated_state, pkce, hist>>

\* with provider: the deprecated synchronous entry.
SyncEnter(p) ==
    /\ CanBegin(p)
    /\ task' = [task EXCEPT ![p] =
                  [Begin(p, "sync", "body") EXCEPT !.warns = {"DeprecationWarning"}]]
    /\ Assign(enter_fields(Scope(p, task[p].logins + 1)))
    /\ clients' = Collect(clients, NoneV, task')
    /\ UNCHANGED <<static, login, helper, calls, login_lock, hist>>

\* The instance used with no scope at all (the package docstring's example).
BareEnter(p) ==
    /\ CanBegin(p)
    /\ task' = [task EXCEPT ![p] = Begin(p, "bare", "body")]
    /\ UNCHANGED <<static, login, helper, calls, login_lock, in_stack, session, generated_state, pkce, hist>>

ExitKind(p) ==
    IF task[p].pc = "body" THEN "scope_ok"
    ELSE IF task[p].result.src = "CancelledError" THEN "scope_cancel"
    ELSE "scope_error"

\* __aexit__: runs when the body returns and when it raises.  (The caller's
\* locals, the login-URL response among them, go with its frame.)
AsyncExit(p) ==
    /\ task[p].mode = "async"
    /\ task[p].pc \in {"body", "raised"}
    /\ in_stack' = aexit_in_stack(task[p].pc = "raised")
    /\ login_lock' = aexit_lock(login_lock, task[p].pc = "raised")
    /\ task' = [task EXCEPT ![p] = End(p)]
    /\ clients' = Collect(clients, oauth_client, task')
    /\ lastUse' = ExitKind(p)
    /\ entry' = NoEntry
    /\ flow' = [flow EXCEPT ![p] = Flow0]
    /\ UNCHANGED <<static, redirect_uri, helper, calls, oauth_client, refresh_token, id_token, state,
                   generated_state, pkce>>

\* __exit__ of the synchronous scope, or the end of an unscoped use.
PlainExit(p) ==
    /\ task[p].mode \in {"sync", "bare"}
    /\ task[p].pc \in {"body", "raised"}
    /\ task' = [task EXCEPT ![p] = End(p)]
    /\ clients' = Collect(clients, oauth_client, task')
    /\ lastUse' = IF \E q \in Procs : InScope(q) THEN lastUse ELSE "unscoped"
    /\ flow' = [flow EXCEPT ![p] = Flow0]
    /\ UNCHANGED <<static, redirect_uri, helper, calls, login_lock, in_stack, oauth_client, refresh_token, id_token,
                   state, generated_state, pkce, entry>>

\* ------------------------------------------------------------ the calls
\* The caller's record at the start of a call; serial numbers the exchange the
\* call may start, so that every token response carries tokens of its own.
Call(p, name) ==
    [task[p] EXCEPT !.ops = @ + 1, !.serial = calls + 1, !.call = name,
                    !.code_in = "none", !.warns = {}, !.result = NoResult,
                    !.fetched = 0]

CanCall(p) == task[p].pc = "body" /\ calls < budget

\* Reading the properties oauth_client, access_token, refresh_token, id_token.
ReadProp(p, name) ==
    /\ CanCall(p)
    /\ LET w == requires_async_context(in_stack)
           c == oauth_client_prop(oauth_client, clients)
           touches == \/ name \in {"oauth_client", "access_token"}
                      \/ name = "refresh_token" /\ refresh_token = NoneV
           v == CASE name = "oauth_client" -> c.ref
                  [] name = "access_token" -> c.heap[c.ref].access_token
                  [] name = "refresh_token" ->
                        IF refresh_token # NoneV THEN refresh_token
                        ELSE c.heap[c.ref].refresh_token
                  [] OTHER -> id_token
       IN /\ task' = [task EXCEPT ![p] =
                        [Call(p, name) EXCEPT !.serial = 0, !.warns = w,
                                           !.result = Returned(name, v)]]
          /\ oauth_client' = IF touches THEN c.ref ELSE oauth_client
          /\ clients' = Collect(IF touches THEN c.heap ELSE clients, oauth_client', task')
    /\ calls' = calls + 1
    /\ UNCHANGED <<static, login, helper, login_lock, in_stack, refresh_token, id_token, state,
                   generated_state, pkce, hist>>

\* Mutant: the guard resets the fields without a warning.
reused_client_guard_silent(oc, rt, it) ==
    IF oc # NoneV
    THEN [oauth_client |-> NoneV, refresh_token |-> NoneV, id_token |-> NoneV,
          warns |-> {}]
    ELSE [oauth_client |-> oc, refresh_token |-> rt, id_token |-> it, warns |-> {}]

\* Mutant: the guard drops the handle and keeps the stored tokens.
reused_client_guard_keeps_tokens(oc, rt, it) ==
    IF oc # NoneV
    THEN [oauth_client |-> NoneV, refresh_token |-> rt, id_token |-> it,
          warns |-> {"ReusedOauthClientWarning"}]
    ELSE [oauth_client |-> oc, refresh_token |-> rt, id_token |-> it, warns |-> {}]

\* process_login, lines 530-540: the guard against a client handle left by earlier use.
reused_client_guard(oc, rt, it) ==
    IF oc # NoneV
    THEN [oauth_client |-> NoneV, refresh_token |-> NoneV, id_token |-> NoneV,
          warns |-> {"ReusedOauthClientWarning"}]
    ELSE [oauth_client |-> oc, refresh_token |-> rt, id_token |-> it, warns |-> {}]

\* dict.update: the keys of e are set in d.
update(d, e) ==
    [k \in DOMAIN d \cup DOMAIN e |-> IF k \in DOMAIN e THEN e[k] ELSE d[k]]

\* The property _extra_query_params and the class attribute additional_headers
\* of the adapter (Naver overrides both).
extra_query_params(prov) ==
    IF prov = "naver" THEN [client_secret |-> "client_secret"] ELSE NoDocument
additional_headers(prov) ==
    IF prov = "naver" THEN [accept |-> "application/json"] ELSE NoDocument

\* process_login, lines 541-542 and 555-556: params after the updates, where d is
\* the dict the caller passed (None or {}: no key).
login_params(d, prov, ver) ==
    LET a == update(d, extra_query_params(prov))
    IN IF ver \notin {NoneV, EmptyStr} THEN update(a, [code_verifier |-> ver]) ELSE a

\* `d or {}` followed by update: a dict with a key is the caller's own object and
\* takes the update; for None or {} a new dict is made and the caller's is left.
passed_dict(d, updated) == IF d # NoDocument THEN updated ELSE d

\* A URL string is the sequence of its pieces: the scheme with "://", the host,
\* the path, and the pieces of the query.
\* str.replace("http://", "https://"): every occurrence is replaced.
replace_http(string) ==
    [i \in DOMAIN string |-> IF string[i] = "http://" THEN "https://" ELSE string[i]]
\* url.scheme.
url_scheme(string) == IF string[1] = "https://" THEN "https" ELSE "http"

\* Mutant: the callback URL is handed on as it came.
current_url_unchanged(string) == string

\* process_login, lines 546-551: the authorization-response URL.
current_url(string) ==
    IF ~allow_insecure_http /\ url_scheme(string) # "https"
    THEN replace_http(string) ELSE string

\* process_login, line 553: scheme://netloc/path of the callback request.
current_path(string) == SubSeq(string, 1, 3)

\* Mutant: the redirect URI bound at construction wins over the argument.
token_redirect_url_bound_first(arg, bound, string) ==
    IF bound \notin {NoneV, EmptyStr} THEN RedirectUrl(bound, <<>>)
    ELSE IF arg \notin {NoneV, EmptyStr} THEN RedirectUrl(arg, <<>>)
    ELSE RedirectUrl(NoneV, current_path(string))

\* process_login, line 562: redirect_uri or self.redirect_uri or current_path.
token_redirect_url(arg, bound, string) ==
    IF arg \notin {NoneV, EmptyStr} THEN RedirectUrl(arg, <<>>)
    ELSE IF bound \notin {NoneV, EmptyStr} THEN RedirectUrl(bound, <<>>)
    ELSE RedirectUrl(NoneV, current_path(string))

\* process_login from its call to the await of session.post, lines 530-574: the
\* guard; params and additional_headers are settled and updated; the URLs are
\* derived from the request; self.oauth_client.prepare_token_request is looked
\* up, which creates the client; the token endpoint is resolved, which fails if
\* the adapter has no discovery document.  With no token endpoint in the
\* document, prepare_token_request is given None: its transport check raises
\* AttributeError on None unless OAUTHLIB_INSECURE_TRANSPORT is set, and then
\* process_login returns None at line 567.  Otherwise the token request goes out.
\* (The await of the token endpoint touches no field of the instance, so the
\* steps before and after it are taken as one.)
LoginStart(p, t) ==
    LET g == reused_client_guard(oauth_client, refresh_token, id_token)
        c == oauth_client_prop(g.oauth_client, clients)
        w == t.warns \cup requires_async_context(in_stack) \cup g.warns
        params == login_params(caller_params, provider, t.verifier)
        headers == update(caller_headers, additional_headers(provider))
        ended == [t EXCEPT !.serial = 0, !.warns = w, !.got = NoneV,
                           !.got_id = NoneV, !.verifier = NoneV, !.convert = TRUE,
                           !.fetched = 1]
    IN /\ oauth_client' = c.ref
       /\ refresh_token' = g.refresh_token
       /\ id_token' = g.id_token
       /\ caller_params' = passed_dict(caller_params, params)
       /\ caller_headers' = passed_dict(caller_headers, headers)
       /\ \E e \in endpoint(provider, "token_endpoint") :
             task' = [task EXCEPT ![p] =
                        IF e.err # "none"
                        THEN [ended EXCEPT !.pc = "raised", !.result = Raised(e.err)]
                        ELSE IF e.val = None
                        THEN IF insecure_transport
                             THEN [ended EXCEPT !.pc = "body",
                                                !.result = Returned("token_url", NoneV)]
                             ELSE [ended EXCEPT !.pc = "raised",
                                                !.result = Raised("AttributeError")]
                        ELSE [t EXCEPT !.pc = "post", !.got = NoneV,
                                       !.got_id = NoneV, !.verifier = NoneV,
                                       !.fetched = 1,
                                       !.wire = TokenRequest(
                                           get_default(params, "code_verifier", NoneV),
                                           token_redirect_url(arg_redirect_uri,
                                                              redirect_uri,
                                                              request_url),
                                           current_url(request_url)),
                                       !.warns = w]]
       /\ clients' = Collect(c.heap, oauth_client', task')

\* await provider.process_login(code, request, ...) called directly.
ProcessLogin(p, conv, ver) ==
    /\ CanCall(p)
    /\ LoginStart(p, [Call(p, "process_login") EXCEPT !.convert = conv,
                                                      !.verifier = ver])
    /\ calls' = calls + 1
    /\ UNCHANGED <<static, login, direct, jar, login_lock, in_stack, state,
                   generated_state, pkce, hist>>

\* Mutant: the callback is not checked for a code.
callback_code_unchecked(r) == TRUE

\* Mutant: the callback is rejected unless it brings back the generated state.
callback_code_state_checked(r) == r.code_in = "query" /\ r.state = generated_state

\* verify_and_process, lines 395-396: where the authorization code is looked for.
callback_code(r) == r.code_in = "query"

\* The state verify_and_process captures from the callback, line 404.
callback_state(r) == IF r.code_in = "query" THEN r.state ELSE NoneV

\* request.cookies: the browser sends the cookie of the latest redirect it
\* followed in this run, or one it was given before.
cookies == IF jar.cookie # NoneV THEN jar.cookie ELSE CookieVerifier

\* Mutant: the verifier of the instance is sent, not the cookie's.
callback_verifier_of_instance(r) ==
    IF cfg.uses_pkce /\ r.cookie THEN pkce_code_verifier ELSE NoneV

\* verify_and_process, lines 405-407: the verifier is read from the cookie.
callback_verifier(r) == IF cfg.uses_pkce /\ r.cookie THEN cookies ELSE NoneV

\* The state property, lines 151-169: the captured state, with a warning if unset.
state_prop ==
    [val |-> state,
     warns |-> IF state = NoneV THEN {"UnsetStateWarning"} ELSE {}]

\* await provider.verify_and_process(request, ...) up to the first await.
VerifyAndProcess(p, r, conv) ==
    /\ CanCall(p)
    /\ LET w == requires_async_context(in_stack)
           t == [Call(p, "verify_and_process") EXCEPT !.code_in = r.code_in, !.convert = conv]
       IN IF ~callback_code(r)
          THEN /\ task' = [task EXCEPT ![p] =
                             [t EXCEPT !.pc = "raised", !.serial = 0, !.warns = w,
                                       !.result = Raised("SSOLoginError400")]]
               /\ UNCHANGED <<session, caller>>
          ELSE LET ver == callback_verifier(r)
                   wc == IF cfg.uses_pkce /\ ~r.cookie THEN {"UserWarning"} ELSE {}
               IN /\ state' = callback_state(r)
                  /\ LoginStart(p, [t EXCEPT !.verifier = ver, !.warns = w \cup wc])
    /\ calls' = calls + 1
    /\ UNCHANGED <<static, login, direct, jar, login_lock, in_stack, generated_state,
                   pkce, hist>>

\* Mutant: the client takes the refresh token of the response for its access token.
parse_request_body_response_swapped(client, body) ==
    [access_token |-> body.refresh_token, refresh_token |-> body.refresh_token]

\* parse_request_body_response: the client object takes the tokens of the response.
parse_request_body_response(client, body) ==
    [access_token |-> body.access_token, refresh_token |-> body.refresh_token]

\* The token response arrives, lines 575-580: the refresh and ID token are stored,
\* the response is parsed into the client the property returns now, and
\* self.oauth_client.add_token is looked up before the userinfo endpoint is awaited.
PostResponse(p, kind) ==
    /\ task[p].pc = "post"
    /\ LET body == content(task[p].serial, kind)
           c == oauth_client_prop(oauth_client, clients)
           w == requires_async_context(in_stack)
       IN /\ refresh_token' = body.refresh_token
          /\ id_token' = body.id_token
          /\ oauth_client' = c.ref
          /\ IF body.access_token = NoneV
             THEN /\ task' = [task EXCEPT ![p].pc = "raised",
                                          ![p].warns = w, ![p].serial = 0,
                                          ![p].wire = NoReq, ![p].convert = TRUE,
                                          ![p].result = Raised("OAuth2Error")]
                  /\ clients' = Collect(c.heap, oauth_client', task')
             ELSE /\ task' = [task EXCEPT ![p].pc = "userinfo_endpoint",
                                          ![p].warns = w, ![p].serial = 0,
                                          ![p].got = body.access_token,
                                          ![p].got_id = body.id_token,
                                          ![p].wire = NoReq,
                                          ![p].cref = c.ref]
                  /\ clients' = Collect([c.heap EXCEPT ![c.ref] =
                                            parse_request_body_response(@, body)],
                                        oauth_client', task')
    /\ UNCHANGED <<static, login, helper, calls, login_lock, in_stack, state, generated_state, pkce, hist>>

\* The userinfo endpoint resolved: add_token puts the access token of the client
\* looked up before the await on the request, then session.get is issued.  With
\* no userinfo endpoint in the document fetched now, add_token is given None: its
\* transport check raises AttributeError, or session.get(None) raises TypeError.
UserinfoEndpoint(p) ==
    /\ task[p].pc = "userinfo_endpoint"
    /\ LET tok == clients[task[p].cref].access_token
       IN \E e \in endpoint(provider, "userinfo_endpoint") :
          IF e.err # "none"
          THEN task' = [task EXCEPT ![p].pc = "raised", ![p].cref = NoneV,
                                    ![p].convert = TRUE, ![p].warns = {},
                                    ![p].got = NoneV, ![p].got_id = NoneV,
                                    ![p].fetched = @ + 1,
                                    ![p].result = Raised(e.err)]
          ELSE IF e.val = None
          THEN task' = [task EXCEPT ![p].pc = "raised", ![p].cref = NoneV,
                                    ![p].convert = TRUE, ![p].warns = {},
                                    ![p].got = NoneV, ![p].got_id = NoneV,
                                    ![p].fetched = @ + 1,
                                    ![p].result =
                                        Raised(IF insecure_transport THEN "TypeError"
                                               ELSE "AttributeError")]
          ELSE IF tok = NoneV
          THEN task' = [task EXCEPT ![p].pc = "raised", ![p].cref = NoneV,
                                    ![p].convert = TRUE, ![p].warns = {},
                                    ![p].got = NoneV, ![p].got_id = NoneV,
                                    ![p].fetched = @ + 1,
                                    ![p].result = Raised("ValueError")]
          ELSE task' = [task EXCEPT ![p].pc = "get", ![p].cref = NoneV,
                                    ![p].warns = {},
                                    ![p].fetched = @ + 1,
                                    ![p].wire = UserinfoRequest(tok)]
    /\ clients' = Collect(clients, oauth_client, task')
    /\ UNCHANGED <<static, login, helper, calls, login_lock, in_stack, oauth_client, refresh_token, id_token,
                   state, generated_state, pkce, hist>>

\* _decode_id_token: the claims of the token (jwt.decode, signature not verified).
decode_id_token(idt) == 5000 + idt

\* response.json() of the userinfo request that carried the bearer token tok.
userinfo(tok) == 7000 + tok

\* Mutant: a missing ID token falls back to the userinfo response.
identity_falls_back(convert, by_id_token, idt, tok) ==
    IF convert
    THEN IF by_id_token /\ idt # NoneV
         THEN Returned("openid_from_token", decode_id_token(idt))
         ELSE Returned("openid_from_response", userinfo(tok))
    ELSE Returned("content", userinfo(tok))

\* Mutant: the response is normalised whatever the caller asked for.
identity_always_converted(convert, by_id_token, idt, tok) ==
    IF by_id_token
    THEN IF idt = NoneV THEN Raised("SSOLoginError401")
         ELSE Returned("openid_from_token", decode_id_token(idt))
    ELSE Returned("openid_from_response", userinfo(tok))

\* The userinfo response arrives, lines 584-591: the identity is resolved.
identity(convert, by_id_token, idt, tok) ==
    IF convert
    THEN IF by_id_token
         THEN IF idt = NoneV THEN Raised("SSOLoginError401")
              ELSE Returned("openid_from_token", decode_id_token(idt))
         ELSE Returned("openid_from_response", userinfo(tok))
    ELSE Returned("content", userinfo(tok))

GetResponse(p) ==
    /\ task[p].pc = "get"
    /\ LET res == identity(task[p].convert, cfg.use_id_token_for_user_info,
                           id_token, task[p].wire.tok)
       IN task' = [task EXCEPT ![p].pc = IF res.kind = "raised" THEN "raised"
                                           ELSE "body",
                               ![p].convert = TRUE, ![p].wire = NoReq,
                               ![p].warns = {},
                               ![p].got = IF res.kind = "raised" THEN NoneV
                                          ELSE task[p].got,
                               ![p].got_id = NoneV,
                               ![p].result = res]
    /\ UNCHANGED <<static, login, helper, calls, login_lock, in_stack, session, generated_state, pkce, hist>>

\* A transport failure of session.post or session.get propagates to the caller.
TransportError(p) ==
    /\ task[p].pc \in {"post", "get"}
    /\ task' = [task EXCEPT ![p].pc = "raised", ![p].convert = TRUE,
                            ![p].wire = NoReq, ![p].warns = {}, ![p].serial = 0,
                            ![p].got = NoneV, ![p].got_id = NoneV,
                            ![p].result = Raised("TransportError")]
    /\ UNCHANGED <<static, login, helper, calls, login_lock, in_stack, session, generated_state, pkce, hist>>

\* The caller's task is cancelled while it is suspended in an await of the exchange.
Cancel(p) ==
    /\ Suspended(p)
    /\ task' = [task EXCEPT ![p].pc = "raised", ![p].cref = NoneV,
                            ![p].convert = TRUE, ![p].wire = NoReq,
                            ![p].warns = {}, ![p].serial = 0, ![p].got = NoneV,
                            ![p].got_id = NoneV,
                            ![p].result = Raised("CancelledError")]
    /\ clients' = Collect(clients, oauth_client, task')
    /\ UNCHANGED <<static, login, helper, calls, login_lock, in_stack, oauth_client, refresh_token, id_token,
                   state, generated_state, pkce, hist>>

\* ------------------------------------------------------- the login-URL calls
\* Python truth of an optional string.
Truthy(v) == v \notin {NoneV, EmptyStr}

\* str(v) of an optional string.
str(v) == IF v = NoneV THEN NoneStr ELSE v

\* Mutant: the bound redirect URI wins over the one given at call time.
effective_redirect_uri_bound_first(arg, bound) == IF Truthy(bound) THEN bound ELSE arg

\* get_login_url, line 295: redirect_uri or self.redirect_uri.
effective_redirect_uri(arg, bound) == IF Truthy(arg) THEN arg ELSE bound

\* get_login_url, lines 298-302: the warning about a missing PKCE pair.
pkce_warning ==
    IF cfg.uses_pkce /\ ~(Truthy(pkce_code_verifier) /\ Truthy(pkce_code_challenge))
    THEN {"UserWarning:pkce"} ELSE {}

\* Mutant: the generated state wins over the caller's.
login_url_state_generated_first(arg) ==
    IF cfg.requires_state /\ generated_state # NoneV THEN generated_state ELSE arg

\* get_login_url, lines 303-309: the state handed to prepare_request_uri.
login_url_state(arg) ==
    IF cfg.requires_state /\ ~Truthy(arg) THEN generated_state ELSE arg

\* get_login_url, lines 304-308: the warning about a missing state.
state_warning(arg) ==
    IF cfg.requires_state /\ ~Truthy(arg) /\ generated_state = NoneV
    THEN {"UserWarning:state"} ELSE {}

\* Mutant: get_login_redirect hands on the generated state whenever the adapter
\* requires state.
redirect_state_generated_always(arg) ==
    IF cfg.requires_state THEN generated_state ELSE arg

\* get_login_redirect, lines 338-339: the state handed to get_login_url.
redirect_state(arg) ==
    IF cfg.requires_state /\ ~Truthy(arg) THEN generated_state ELSE arg

\* The percent-encoded form of a redirect URI.
quote(uri) == 20000 + uri

\* The scope parameter: the names joined by a space, which is encoded as "+".
RECURSIVE list_to_scope(_)
list_to_scope(names) ==
    IF Len(names) = 1 THEN names[1]
    ELSE names[1] \o "+" \o list_to_scope(Tail(names))

\* The keyword arguments get_login_url passes itself, lines 312-316; a key of
\* params that is one of them makes the call raise TypeError (a keyword argument
\* given twice).
keywords ==
    {"redirect_uri", "state", "scope", "code_challenge", "code_challenge_method"}
clash(params) == DOMAIN params \cap keywords # {}

\* The extension parameters that reach the URL: those with a truthy value.
kept(params) == [k \in {n \in DOMAIN params : bool(params[n])} |-> params[k]]

\* Mutant: the scope is left out of the URL.
prepare_request_uri_no_scope(base, uri, names, st, challenge, params) ==
    [base |-> base, client_id |-> client_id,
     redirect_uri |-> IF Truthy(uri) THEN quote(uri) ELSE NoneV,
     scope |-> "",
     state |-> IF Truthy(st) THEN st ELSE NoneV,
     code_challenge |-> challenge,
     code_challenge_method |-> IF challenge # NoneV THEN "S256" ELSE "none",
     params |-> kept(params)]

\* oauth_client.prepare_request_uri as get_login_url calls it, lines 310-318: the
\* URL is the endpoint with response_type and the client id; redirect_uri, scope
\* and state are added when truthy, code_challenge with its method when it is not
\* None, an extension parameter when its value is truthy.
prepare_request_uri(base, uri, names, st, challenge, params) ==
    [base |-> base, client_id |-> client_id,
     redirect_uri |-> IF Truthy(uri) THEN quote(uri) ELSE NoneV,
     scope |-> IF names # <<>> THEN list_to_scope(names) ELSE "",
     state |-> IF Truthy(st) THEN st ELSE NoneV,
     code_challenge |-> challenge,
     code_challenge_method |-> IF challenge # NoneV THEN "S256" ELSE "none",
     params |-> kept(params)]

\* What get_login_url returns for its arguments on the instance as it is, for an
\* adapter that has an authorization endpoint.
login_url(uri, st, params) ==
    prepare_request_uri((CHOOSE e \in endpoint(provider, "authorization_endpoint") :
                            TRUE).val,
                        effective_redirect_uri(uri, redirect_uri), scope,
                        login_url_state(st), pkce_code_challenge, params)

\* get_login_url from its call to the await of the authorization endpoint, lines
\* 294-311: the redirect URI is settled or ValueError raised; the warnings; the
\* state is settled; self.oauth_client.prepare_request_uri is looked up, which
\* creates the client.  t is the caller's record, f its call with the state handed on.
LoginUrlStart(p, t, f) ==
    LET uri == effective_redirect_uri(f.redirect_uri, redirect_uri)
        c == oauth_client_prop(oauth_client, clients)
    IN IF uri = NoneV
       THEN /\ task' = [task EXCEPT ![p] =
                          [t EXCEPT !.pc = "raised", !.serial = 0,
                                    !.result = Raised("ValueError")]]
            /\ flow' = [flow EXCEPT ![p] = [f EXCEPT !.url_state = NoneV]]
            /\ UNCHANGED <<oauth_client, clients>>
       ELSE /\ task' = [task EXCEPT ![p] =
                          [t EXCEPT !.pc = "authorization_endpoint", !.serial = 0,
                                    !.warns = pkce_warning
                                                \cup state_warning(f.url_state)
                                                \cup requires_async_context(in_stack)]]
            /\ flow' = [flow EXCEPT ![p] =
                          [f EXCEPT !.uri = uri,
                                    !.url_state = login_url_state(f.url_state)]]
            /\ oauth_client' = c.ref
            /\ clients' = Collect(c.heap, oauth_client', task')

\* await provider.get_login_url(redirect_uri=..., state=...).
GetLoginUrl(p, uri, st, params) ==
    /\ CanCall(p)
    /\ LoginUrlStart(p, Call(p, "get_login_url"),
                     [Flow0 EXCEPT !.redirect_uri = uri, !.state = st,
                                   !.params = params, !.url_state = st])
    /\ calls' = calls + 1
    /\ UNCHANGED <<static, redirect_uri, helper, login_lock, in_stack, refresh_token,
                   id_token, state, generated_state, pkce, hist>>

\* await provider.get_login_redirect(redirect_uri=..., state=...) up to the await
\* inside get_login_url.
GetLoginRedirect(p, uri, st, params) ==
    /\ CanCall(p)
    /\ LoginUrlStart(p, Call(p, "get_login_redirect"),
                     [Flow0 EXCEPT !.redirect_uri = uri, !.state = st,
                                   !.params = params,
                                   !.url_state = redirect_state(st)])
    /\ calls' = calls + 1
    /\ UNCHANGED <<static, redirect_uri, helper, login_lock, in_stack, refresh_token,
                   id_token, state, generated_state, pkce, hist>>

\* The cookie get_login_redirect sets, lines 342-343.
redirect_cookie ==
    IF cfg.uses_pkce THEN [set |-> TRUE, value |-> str(pkce_code_verifier)]
    ELSE NoCookie

\* The authorization endpoint resolved, lines 310-319 and 341-344: the URL is
\* prepared with the code challenge the instance holds now; get_login_redirect
\* wraps it in a 303 response and sets the cookie.
AuthorizationEndpoint(p) ==
    /\ task[p].pc = "authorization_endpoint"
    /\ \E e \in endpoint(provider, "authorization_endpoint") :
          IF e.err # "none"
          THEN /\ task' = [task EXCEPT ![p].pc = "raised", ![p].warns = {},
                                       ![p].fetched = 1,
                                       ![p].result = Raised(e.err)]
               /\ UNCHANGED <<flow, jar>>
          ELSE IF clash(flow[p].params)
          THEN /\ task' = [task EXCEPT ![p].pc = "raised", ![p].warns = {},
                                       ![p].fetched = 1,
                                       ![p].result = Raised("TypeError")]
               /\ UNCHANGED <<flow, jar>>
          ELSE /\ LET url == prepare_request_uri(e.val, flow[p].uri, scope,
                                                 flow[p].url_state,
                                                 pkce_code_challenge,
                                                 flow[p].params)
                  IN flow' = [flow EXCEPT ![p].response =
                                IF task[p].call = "get_login_url"
                                THEN [status |-> NoneV, location |-> url,
                                      cookie |-> NoCookie]
                                ELSE [status |-> 303, location |-> url,
                                      cookie |-> redirect_cookie]]
                     /\ jar' = IF task[p].call = "get_login_redirect"
                                  /\ redirect_cookie.set
                               THEN [cookie |-> redirect_cookie.value,
                                     code_challenge |-> url.code_challenge]
                               ELSE jar
               /\ task' = [task EXCEPT ![p].pc = "body", ![p].warns = {},
                                       ![p].fetched = 1,
                                       ![p].result = Returned(task[p].call, NoneV)]
    /\ UNCHANGED <<static, redirect_uri, direct, caller, calls, login_lock, in_stack,
                   session, generated_state, pkce, hist>>

\* ------------------------------------------------------------------- Next
PropNames == {"oauth_client", "access_token", "refresh_token", "id_token"}
CookieChoices == IF cfg.uses_pkce THEN BOOLEAN ELSE {FALSE}
CallbackRequests == {r \in Requests : r.cookie \in CookieChoices}
Verifiers == IF cfg.uses_pkce THEN {NoneV, CookieVerifier} ELSE {NoneV}

Exchange(p) ==
    \/ \E kind \in RespKinds : PostResponse(p, kind)
    \/ UserinfoEndpoint(p)
    \/ GetResponse(p)
    \/ TransportError(p)
    \/ Cancel(p)

Calls(p) ==
    \/ \E name \in PropNames : ReadProp(p, name)
    \/ \E conv \in BOOLEAN, ver \in Verifiers : ProcessLogin(p, conv, ver)
    \/ \E r \in CallbackRequests, conv \in BOOLEAN : VerifyAndProcess(p, r, conv)

Scoped(p) ==
    \/ AsyncEnter(p)
    \/ AcquireResume(p)
    \/ CancelWaiting(p)
    \/ AsyncExit(p)

Unscoped(p) ==
    \/ SyncEnter(p)
    \/ BareEnter(p)
    \/ PlainExit(p)

Next == \E p \in Procs : Scoped(p) \/ Unscoped(p) \/ Calls(p) \/ Exchange(p)

Spec == Init /\ [][Next]_vars

\* Every caller uses the instance only through async with.
NextScoped == \E p \in Procs : Scoped(p) \/ Calls(p) \/ Exchange(p)

SpecScoped == InitScoped /\ [][NextScoped]_vars

\* The login-URL calls, made by callers of every kind.
UriChoices == {NoneV, CallUri}
StateChoices == {NoneV, EmptyStr, UserState}

\* params: none, the two of the test, one with an empty value, and one named as
\* a parameter of the request itself.
ParamChoices ==
    {NoDocument, [access_type |-> "offline", param |-> "value"],
     [access_type |-> "offline", prompt |-> ""], [state |-> "forged"]}

LoginCalls(p) ==
    \/ \E uri \in UriChoices, st \in StateChoices, params \in ParamChoices :
          GetLoginUrl(p, uri, st, params)
    \/ \E uri \in UriChoices, st \in StateChoices, params \in ParamChoices :
          GetLoginRedirect(p, uri, st, params)

\* The instance is constructed with or without a redirect URI.
Bound ==
    /\ Fresh
    /\ redirect_uri \in {NoneV, BoundUri}
    /\ flow = [p \in Procs |-> Flow0]
    /\ NoHelper

InitLogin == Bound /\ budget = MaxLoginCalls

NextLogin ==
    \E p \in Procs :
        \/ Scoped(p) \/ Unscoped(p)
        \/ LoginCalls(p) \/ AuthorizationEndpoint(p)

SpecLogin == InitLogin /\ [][NextLogin]_vars

\* Every operation of the instance, by callers of every kind.
InitAll == Bound /\ budget = MaxAllCalls

NextAll ==
    \E p \in Procs :
        \/ Scoped(p) \/ Unscoped(p) \/ Calls(p) \/ Exchange(p)
        \/ LoginCalls(p) \/ AuthorizationEndpoint(p)

SpecAll == InitAll /\ [][NextAll]_vars

\* Every operation, with every caller inside async with.
NextLoginScoped ==
    \E p \in Procs :
        \/ Scoped(p) \/ Calls(p) \/ Exchange(p)
        \/ LoginCalls(p) \/ AuthorizationEndpoint(p)

SpecLoginScoped == InitLogin /\ [][NextLoginScoped]_vars

\* get_code_verifier as a function of the requested length.
Lengths == 0 .. MaxLength

InitVerifier ==
    /\ Fresh
    /\ cfg = Adapter(FALSE, TRUE, FALSE)
    /\ budget = 0
    /\ NoLogin
    /\ length \in Lengths
    /\ code_verifier = <<>>
    /\ provider = "fitbit" /\ scope = init_scope(<<>>, provider)
    /\ Uncalled /\ Plain

GetCodeVerifier ==
    /\ code_verifier = <<>>
    /\ code_verifier' = get_code_verifier(length)
    /\ UNCHANGED <<static, login, length, adapter, caller, jar, calls, login_lock,
                   in_stack, session, generated_state, pkce, task, hist>>

NextVerifier == GetCodeVerifier

SpecVerifier == InitVerifier /\ [][NextVerifier]_vars

\* The methods of an adapter called directly on an instance of each class:
\* get_discovery_document, the three accessors, openid_from_response.
InitConverters ==
    /\ Fresh
    /\ cfg = Adapter(FALSE, FALSE, FALSE)
    /\ budget = 0
    /\ NoLogin
    /\ length = 0 /\ code_verifier = <<>>
    /\ provider \in Providers
    /\ scope = init_scope(<<>>, provider)
    /\ document = Outcome("uncalled", NoDocument)
    /\ accessed = [key |-> "none", err |-> "uncalled", val |-> None]
    /\ response \in Payloads(provider)
    /\ openid = raise("uncalled")
    /\ Plain

Pure == <<static, login, length, code_verifier, provider, response, caller, jar, calls,
          login_lock, in_stack, session, generated_state, pkce, task, hist>>

GetDiscoveryDocument ==
    /\ document.err = "uncalled"
    /\ document' \in get_discovery_document(provider)
    /\ UNCHANGED <<Pure, accessed, openid>>

Accessor(key) ==
    /\ accessed.err = "uncalled"
    /\ \E e \in endpoint(provider, key) :
          accessed' = [key |-> key, err |-> e.err, val |-> e.val]
    /\ UNCHANGED <<Pure, document, openid>>

OpenidFromResponse ==
    /\ openid.err = "uncalled"
    /\ openid' = openid_from_response(provider, response)
    /\ UNCHANGED <<Pure, document, accessed>>

NextConverters ==
    \/ GetDiscoveryDocument
    \/ \E key \in Keys : Accessor(key)
    \/ OpenidFromResponse

SpecConverters == InitConverters /\ [][NextConverters]_vars

\* Every operation, on an instance of the base class or of an adapter with a
\* document; get_discovery_document may be called directly as well.
InitAdapters ==
    /\ Fresh
    /\ redirect_uri \in {NoneV, BoundUri}
    /\ flow = [p \in Procs |-> Flow0]
    /\ length = 0 /\ code_verifier = <<>>
    /\ provider \in {"SSOBase", "fitbit"}
    /\ scope = init_scope(<<>>, provider)
    /\ Uncalled /\ Plain
    /\ budget = MaxAllCalls

NextAdapters == NextAll \/ GetDiscoveryDocument

SpecAdapters == InitAdapters /\ [][NextAdapters]_vars

\* The login URL of an adapter constructed with or without a scope argument and
\* with or without a redirect URI, every caller inside async with.
ScopeChoices == {<<>>, <<"openid", "additional">>}

InitUrl ==
    /\ Fresh
    /\ redirect_uri \in {NoneV, BoundUri}
    /\ flow = [p \in Procs |-> Flow0]
    /\ length = 0 /\ code_verifier = <<>>
    /\ provider \in {"SSOBase", "fitbit", "github"}
    /\ \E arg \in ScopeChoices : scope = init_scope(arg, provider)
    /\ Uncalled /\ Plain
    /\ budget = MaxAllCalls

NextUrl == \E p \in Procs : Scoped(p) \/ LoginCalls(p) \/ AuthorizationEndpoint(p)

SpecUrl == InitUrl /\ [][NextUrl]_vars

\* The code exchange with its arguments: an adapter with a literal document or
\* Google's, with or without a redirect URI bound; insecure transport allowed or
\* not, the variable OAUTHLIB_INSECURE_TRANSPORT set by this instance or by
\* whatever else runs in the process; callbacks that arrive over https or http;
\* a redirect_uri argument or none.  Every caller is inside async with.
HttpUrl == <<"http://", "localhost", "/callback", "?code=code&state=state">>
\* A callback whose query carries a URL that is not percent-encoded.
NestedUrl == <<"http://", "localhost", "/callback", "?code=code&state=", "http://", "next">>
UrlChoices == {CallbackUrl, HttpUrl, NestedUrl}

InitExchange ==
    /\ Fresh
    /\ redirect_uri \in {NoneV, BoundUri}
    /\ flow = [p \in Procs |-> Flow0]
    /\ length = 0 /\ code_verifier = <<>>
    /\ provider \in {"fitbit", "google"}
    /\ scope = init_scope(<<>>, provider)
    /\ Uncalled
    /\ allow_insecure_http \in BOOLEAN
    /\ insecure_transport \in {b \in BOOLEAN : allow_insecure_http => b}
    /\ request_url \in UrlChoices
    /\ arg_redirect_uri \in {NoneV, EmptyStr, CallUri}
    /\ caller_params = NoDocument /\ caller_headers = NoDocument
    /\ jar = NoJar
    /\ budget = MaxAllCalls

SpecExchange == InitExchange /\ [][NextScoped]_vars

\* Logins that follow one another on one instance, every one inside async with:
\* redirects and callbacks, by callers that pass the same params and headers
\* dicts (with a key of their own, or empty) to every exchange.
DictChoices == {NoDocument, [audience |-> "api"]}

InitReuse ==
    /\ Fresh
    /\ redirect_uri = BoundUri
    /\ flow = [p \in Procs |-> Flow0]
    /\ length = 0 /\ code_verifier = <<>>
    /\ provider \in {"fitbit", "naver"}
    /\ scope = init_scope(<<>>, provider)
    /\ Uncalled
    /\ allow_insecure_http = FALSE /\ insecure_transport = FALSE
    /\ request_url = CallbackUrl /\ arg_redirect_uri = NoneV
    /\ caller_params \in DictChoices /\ caller_headers = caller_params
    /\ jar = NoJar
    /\ budget = MaxLoginCalls

SpecReuse == InitReuse /\ [][NextLoginScoped]_vars

\* Three logins that all use async with, under the scheduling of the event loop:
\* a waiter woken by release() is run, a login inside the scope goes on to its
\* exit, and the awaits of an exchange come back.
InitFair == FreshFor(MaxWaiting) /\ budget = MaxAllCalls /\ NoLogin /\ NoHelper

Fairness ==
    \A p \in 1 .. MaxWaiting :
        /\ WF_vars(AcquireResume(p))
        /\ WF_vars(AsyncExit(p))
        /\ WF_vars(Exchange(p))

SpecFair == InitFair /\ [][NextScoped]_vars /\ Fairness

\* The same three logins when a body may enter the scope of its instance again.
Nested(p) ==
    \/ NestedEnter(p)
    \/ CancelNested(p)

NextNested == \E p \in Procs : Scoped(p) \/ Nested(p) \/ Calls(p) \/ Exchange(p)

SpecNested == InitFair /\ [][NextNested]_vars /\ Fairness

\* ----------------------------------------------------------------- claims
\* What a reader of the instance sees of the session: the client handle with the
\* tokens of the client it refers to, the refresh token, the ID token, the state.
View ==
    <<oauth_client,
      IF oauth_client = NoneV THEN WebApplicationClient ELSE clients[oauth_client],
      refresh_token, id_token, state>>

\* Caller p took the step.
Acted(p) == task'[p] # task[p]
\* The step is a call caller p makes.
Calling(p, name) == task'[p].ops # task[p].ops /\ task'[p].call = name
\* Caller p is in the state its latest call left at its first await or its return.
JustCalled(p) ==
    \/ task[p].pc = "post"
    \/ task[p].pc = "body" /\ task[p].call \in PropNames
    \/ task[p].pc = "raised" /\ task[p].result = Raised("SSOLoginError400")
Unscoped_(p) == task[p].mode \in {"sync", "bare"}

\* C1: with every login inside its own async scope, the access token a login reads
\* inside its scope after its exchange is the access token of its own token
\* response, whatever the other login does meanwhile.
C1_OwnAccessToken ==
    \A p \in Procs :
        (InScope(p) /\ task[p].pc = "body" /\ task[p].call = "access_token"
                    /\ task[p].got # NoneV)
            => task[p].result = Returned("access_token", task[p].got)

\* A login has read its own token inside its scope while the other login, started
\* concurrently, is still waiting for the lock.
C1_Witness ==
    \E p, q \in Procs :
        /\ InScope(p) /\ task[p].call = "access_token"
        /\ task[p].got # NoneV /\ task[p].result.val = task[p].got
        /\ task[q].pc = "waiting"

\* C2: at most one caller is between async scope entry and exit, and while one is,
\* the lock is taken, so that no other entry (and its reset) can happen.
C2_OneSessionInFlight ==
    /\ \A p, q \in Procs : InScope(p) /\ InScope(q) => p = q
    /\ (\E p \in Procs : InScope(p)) => login_lock.locked /\ in_stack

\* A login failed inside its scope and has not left it yet; the other login waits.
C2_Witness ==
    \E p, q \in Procs :
        InScope(p) /\ task[p].pc = "raised" /\ task[q].pc = "waiting"

\* C3: the lock is held exactly while a caller is inside the async scope: every
\* exit, after a return, an error or a cancellation, leaves it free, and the first
\* waiter (or a new login) can then take it.
C3_ExitReleases ==
    /\ login_lock.locked <=> \E p \in Procs : InScope(p)
    /\ \A q \in Procs :
          (task[q].pc = "waiting" /\ Head(login_lock.waiters) = q
              /\ \A p \in Procs : ~InScope(p))
            => ENABLED AcquireResume(q)

\* A login is inside the scope after the scope before it was left by cancellation.
C3_Witness ==
    /\ entry.prev = "scope_cancel"
    /\ \E p \in Procs : InScope(p)

\* C4: the step that enters the async scope leaves the client handle, the refresh
\* token, the ID token and the captured state unset.
C4_EntryResets ==
    [][\A p \in Procs : (~InScope(p) /\ InScope(p)') => SessionBlank']_vars

\* A scope was entered on an instance whose previous scope had exited through an
\* error and left session fields set.
C4_Witness ==
    /\ entry.dirty
    /\ entry.prev = "scope_error"
    /\ \E p \in Procs : InScope(p) /\ task[p].ops = 0 /\ SessionBlank

C6_MutationsUnderLock ==
    [][\A p \in Procs :
          (Acted(p) /\ View' # View) => InScope(p)' /\ login_lock'.locked]_vars

\* C6 amended: a caller that uses async with changes the session fields only
\* while it is inside its scope, the lock is taken and no other caller is inside.
C6_ScopedMutationsUnderLock ==
    [][\A p \in Procs :
          (Acted(p) /\ View' # View /\ task'[p].mode = "async")
            => /\ InScope(p)'
               /\ login_lock'.locked
               /\ \A q \in Procs \ {p} : ~InScope(q)']_vars

\* A login inside its scope has just stored its token response while another
\* caller uses the instance outside any scope.
C6_Witness ==
    \E p, q \in Procs :
        /\ InScope(p) /\ task[p].pc = "userinfo_endpoint" /\ login_lock.locked
        /\ Unscoped_(q) /\ task[q].pc = "body"

\* C7: every call made by a caller that is not inside an async scope emits a
\* SecurityWarning.
C7_UnscopedCallsWarn ==
    \A p \in Procs :
        (Unscoped_(p) /\ JustCalled(p)) => "SecurityWarning" \in task[p].warns

\* C8: the synchronous entry emits a DeprecationWarning, leaves the lock and the
\* in-scope flag alone, can always be taken, and leaves the fields as the async
\* entry would: session fields unset, a generated state exactly when the adapter
\* requires state, a PKCE pair exactly when it uses PKCE.
C8_SyncEntry ==
    /\ [](\A p \in Procs : CanBegin(p) => ENABLED SyncEnter(p))
    /\ [][\A p \in Procs :
            (task[p].mode # "sync" /\ task'[p].mode = "sync")
              => LET a == aenter_fields(Scope(p, task'[p].logins))
                 IN /\ "DeprecationWarning" \in task'[p].warns
                    /\ login_lock' = login_lock
                    /\ in_stack' = in_stack
                    /\ SessionBlank'
                    /\ (generated_state' # NoneV) <=> cfg.requires_state
                    /\ (pkce_code_verifier' # NoneV) <=> cfg.uses_pkce
                    /\ (pkce_code_challenge' # NoneV) <=> cfg.uses_pkce
                    /\ <<oauth_client', refresh_token', id_token', state',
                         generated_state', pkce_code_verifier',
                         pkce_code_challenge'>>
                       = <<a.oauth_client, a.refresh_token, a.id_token, a.state,
                           a.generated_state, a.pkce_code_verifier,
                           a.pkce_code_challenge>>]_vars

\* A caller has entered the synchronous scope while another login holds the lock.
C8_Witness ==
    \E p, q \in Procs :
        /\ task[p].mode = "sync" /\ task[p].ops = 0
        /\ "DeprecationWarning" \in task[p].warns
        /\ InScope(q) /\ login_lock.locked

\* C9: verify_and_process on a callback with no code raises SSOLoginError 400,
\* sends no request and changes no session field.
C9_MissingCode ==
    [][\A p \in Procs :
          (Calling(p, "verify_and_process") /\ task'[p].code_in = "none")
            => /\ task'[p].pc = "raised"
               /\ task'[p].result = Raised("SSOLoginError400")
               /\ task'[p].wire = NoReq
               /\ View' = View
               /\ clients' = clients]_vars

\* A callback without code was refused in a scope whose earlier callback had its
\* state captured: the captured state is still there.
C9_Witness ==
    \E p \in Procs :
        /\ InScope(p) /\ task[p].call = "verify_and_process"
        /\ task[p].code_in = "none"
        /\ task[p].result = Raised("SSOLoginError400")
        /\ state = CallbackState

\* C10: a callback that carries its code in the form body of a POST is not
\* refused as lacking a code.
C10_FormPostAccepted ==
    \A p \in Procs :
        (task[p].call = "verify_and_process" /\ task[p].code_in = "form")
            => task[p].result # Raised("SSOLoginError400")

\* The step ends caller p's exchange with the userinfo response in hand.
GotUserinfo(p) ==
    /\ task[p].pc = "get"
    /\ task'[p].pc # "get"
    /\ task'[p].result.src \notin {"TransportError", "CancelledError"}

\* The step is a call of get_login_url or get_login_redirect by caller p.
LoginCalling(p) == Calling(p, "get_login_url") \/ Calling(p, "get_login_redirect")
\* The step ends caller p's login-URL call with the URL prepared.
UrlReturned(p) == task[p].pc = "authorization_endpoint" /\ task'[p].pc = "body"
\* The state prepare_request_uri puts into the URL for the state it is handed.
Placed(st) == IF Truthy(st) THEN st ELSE NoneV
\* The step takes caller p into a scope: async (plain or resumed) or synchronous.
Entering(p) ==
    \/ ~InScope(p) /\ InScope(p)'
    \/ task[p].mode # "sync" /\ task'[p].mode = "sync"

\* C11: a login-URL call raises ValueError exactly when no redirect URI is given
\* at call time and none is bound, and then touches no field and warns of nothing;
\* otherwise the URL carries the URI given at call time if there is one, else the
\* bound one.
C11_RedirectUriRequired ==
    /\ [][\A p \in Procs :
            LoginCalling(p)
              => IF flow'[p].redirect_uri = NoneV /\ redirect_uri = NoneV
                 THEN /\ task'[p].pc = "raised"
                      /\ task'[p].result = Raised("ValueError")
                      /\ task'[p].warns = {}
                      /\ View' = View /\ clients' = clients
                      /\ generated_state' = generated_state
                      /\ pkce' = pkce
                 ELSE /\ task'[p].pc = "authorization_endpoint"
                      /\ flow'[p].uri = IF flow'[p].redirect_uri # NoneV
                                        THEN flow'[p].redirect_uri
                                        ELSE redirect_uri]_vars
    /\ [][\A p \in Procs :
            UrlReturned(p)
              => flow'[p].response.location.redirect_uri = quote(flow[p].uri)]_vars

\* A URL was returned that carries the redirect URI given at call time although
\* another one is bound to the instance.
C11_Witness ==
    \E p \in Procs :
        /\ redirect_uri = BoundUri
        /\ flow[p].redirect_uri = CallUri
        /\ flow[p].response.location.redirect_uri = quote(CallUri)

\* C12: inside an async scope, get_login_redirect returns a 303 response whose
\* Location is the URL get_login_url returns for the same arguments, and
\* get_login_url returns that URL.
C12_RedirectLocation ==
    [][\A p \in Procs :
          UrlReturned(p)
            => /\ flow'[p].response.location
                    = login_url(flow[p].redirect_uri, flow[p].state,
                                flow[p].params)'
               /\ flow'[p].response.status
                    = IF task[p].call = "get_login_redirect" THEN 303 ELSE NoneV]_vars

\* A redirect was returned by an adapter that requires state to a caller that
\* passed the empty string as state: its Location carries the generated state.
C12_Witness ==
    \E p \in Procs :
        /\ cfg.requires_state
        /\ flow[p].response.status = 303
        /\ flow[p].state = EmptyStr
        /\ flow[p].response.location.state = generated_state
        /\ generated_state # NoneV

\* C13: every redirect response of a PKCE adapter sets the cookie to the verifier
\* whose S256 challenge is the code_challenge of its Location; a redirect
\* response of another adapter sets no cookie.
C13_CookieMatchesChallenge ==
    \A p \in Procs :
        flow[p].response.status = 303
          => IF cfg.uses_pkce
             THEN /\ flow[p].response.cookie.set
                  /\ flow[p].response.location.code_challenge
                       = S256(flow[p].response.cookie.value)
             ELSE ~flow[p].response.cookie.set

\* C14: the state get_login_url puts into the URL is the caller's when one is
\* given, else the generated one when the adapter requires state, else none; it
\* warns exactly when the adapter requires state and neither exists, and the URL
\* is returned all the same.
C14_UrlState ==
    /\ [][\A p \in Procs :
            (Calling(p, "get_login_url") /\ task'[p].pc # "raised")
              => LET arg == flow'[p].state
                 IN /\ Placed(flow'[p].url_state)
                         = IF Truthy(arg) THEN arg
                           ELSE IF cfg.requires_state THEN generated_state
                           ELSE NoneV
                    /\ ("UserWarning:state" \in task'[p].warns)
                         <=> /\ cfg.requires_state
                             /\ ~Truthy(arg)
                             /\ generated_state = NoneV
                    /\ task'[p].pc = "authorization_endpoint"]_vars
    /\ [][\A p \in Procs :
            (UrlReturned(p) /\ task[p].call = "get_login_url")
              => /\ flow'[p].response.location.state = Placed(flow[p].url_state)
                 /\ task'[p].result = Returned("get_login_url", NoneV)]_vars

\* An adapter that requires state returned a URL without state to a caller that
\* gave none and had entered no scope.
C14_Witness ==
    \E p \in Procs :
        /\ cfg.requires_state
        /\ generated_state = NoneV
        /\ task[p].call = "get_login_url"
        /\ task[p].result = Returned("get_login_url", NoneV)
        /\ flow[p].response.location.redirect_uri # NoneV
        /\ flow[p].response.location.state = NoneV

C16_ConvertOrRaw ==
    [][\A p \in Procs :
          GotUserinfo(p)
            => IF task[p].convert
               THEN task'[p].result.src
                      \in {"openid_from_token", "openid_from_response",
                           "SSOLoginError401"}
               ELSE task'[p].result = Returned("content", userinfo(task[p].got))]_vars

\* A caller of an ID-token adapter that opted out of normalisation got the raw
\* JSON although the token response carried no ID token.
C16_Witness ==
    \E p \in Procs :
        /\ cfg.use_id_token_for_user_info
        /\ InScope(p)
        /\ task[p].result.src = "content"
        /\ id_token = NoneV

\* C17: the verifier has exactly the requested length, clamped to 43..128.
C17_ExactLength ==
    code_verifier # <<>> => Len(code_verifier) = Max(43, Min(length, 128))

\* C18: whatever length is requested, the verifier has between 43 and 128
\* characters and none of them is the padding character.
C18_LengthInRange ==
    code_verifier # <<>>
        => /\ Len(code_verifier) >= 43
           /\ Len(code_verifier) <= 128
           /\ \A i \in 1 .. Len(code_verifier) : code_verifier[i] # "="

\* A verifier was made for a requested length whose byte count needs padding
\* and whose encoding comes out one character short of the request.
C18_Witness ==
    /\ length = 45
    /\ Len(code_verifier) = 44

\* The stored PKCE pair is unset as a whole or a verifier with its S256 challenge.
PairValid ==
    \/ pkce_code_verifier = NoneV /\ pkce_code_challenge = NoneV
    \/ pkce_code_verifier # NoneV /\ pkce_code_challenge = S256(pkce_code_verifier)

\* C19: for a PKCE adapter the stored verifier and challenge are both unset or
\* the challenge is the S256 challenge of the verifier; every scope entry puts a
\* new pair in place of the old one, and no other step changes either half.
C19_PkcePair ==
    /\ [](cfg.uses_pkce => PairValid)
    /\ [][cfg.uses_pkce
            => IF \E p \in Procs : Entering(p)
               THEN /\ PairValid'
                    /\ pkce_code_verifier' \notin {NoneV, pkce_code_verifier}
                    /\ pkce_code_challenge' \notin {NoneV, pkce_code_challenge}
               ELSE pkce' = pkce]_vars

\* A PKCE adapter is inside a scope that was entered after an earlier scope had
\* ended: the pair of the earlier scope was replaced.
C19_Witness ==
    /\ cfg.uses_pkce
    /\ entry.prev \in {"scope_ok", "scope_error", "scope_cancel"}
    /\ \E p \in Procs : InScope(p)
    /\ pkce_code_verifier # NoneV
    /\ pkce_code_challenge = S256(pkce_code_verifier)

\* C20 as stated: an adapter that requires state has a generated state in every
\* async scope, each async entry generates a new one, and it does not change
\* while the scope lasts; another adapter never has one.
C20_GeneratedStateStable ==
    /\ [](~cfg.requires_state => generated_state = NoneV)
    /\ [](cfg.requires_state
            => \A p \in Procs : InScope(p) => generated_state # NoneV)
    /\ [][\A p \in Procs :
            (cfg.requires_state /\ ~InScope(p) /\ InScope(p)')
              => generated_state' \notin {NoneV, generated_state}]_vars
    /\ [][\A p \in Procs :
            (InScope(p) /\ InScope(p)') => generated_state' = generated_state]_vars

\* C20 amended: the generated state changes only in a step that enters a scope,
\* async or synchronous; for an adapter that requires state every such entry
\* generates a new one, so that it is present in every scope and stays as it is
\* unless a synchronous entry happens meanwhile; another adapter never has one.
C20_GeneratedStateByEntry ==
    /\ [](~cfg.requires_state => generated_state = NoneV)
    /\ [](cfg.requires_state
            => \A p \in Procs : InScope(p) => generated_state # NoneV)
    /\ [][IF cfg.requires_state /\ \E p \in Procs : Entering(p)
          THEN generated_state' \notin {NoneV, generated_state}
          ELSE generated_state' = generated_state]_vars
    /\ [][\A p \in Procs :
            (InScope(p) /\ InScope(p)'
               /\ \A q \in Procs : ~(task[q].mode # "sync" /\ task'[q].mode = "sync"))
              => generated_state' = generated_state]_vars

\* While a login is inside its async scope, the instance holds the state that
\* another caller's synchronous entry generated.
C20_Witness ==
    /\ cfg.requires_state
    /\ \E p, q \in Procs :
          /\ InScope(p)
          /\ task[q].mode = "sync"
          /\ generated_state = generate_random_state(Scope(q, task[q].logins))

\* The step is the start of an exchange by caller p: process_login runs up to the
\* await of the token request.
Starting(p) == task[p].pc # "post" /\ task'[p].pc = "post"

\* The tokens of the token response that gave the access token tok.
OwnTokens(tok) == {NoneV, tok, tok + 1, tok + 2}

Overtaking(p, q) ==
    /\ p # q
    /\ Unscoped_(p) /\ Suspended(p)
    /\ Unscoped_(q) /\ Starting(q)

\* C26 as stated: two logins run process_login concurrently outside any async
\* scope; the second one to start is signalled by a ReusedOauthClientWarning.
C26_ReusedWarningSignals ==
    [][\A p, q \in Procs :
          Overtaking(p, q) => "ReusedOauthClientWarning" \in task'[q].warns]_vars

\* C26 amended: the second login to start goes on to its token request; it gets a
\* SecurityWarning, and a ReusedOauthClientWarning exactly when the client handle
\* of the first is still there, which it is not after a synchronous entry.
C26_RaceSignals ==
    [][\A p, q \in Procs :
          Overtaking(p, q)
            => /\ task'[q].wire.kind = "token"
               /\ "ReusedOauthClientWarning" \in task'[q].warns <=> oauth_client # NoneV
               /\ "SecurityWarning" \in task'[q].warns <=> ~in_stack
               /\ task'[q].warns \subseteq {"ReusedOauthClientWarning",
                                            "SecurityWarning", "UserWarning"}]_vars

\* The login that started first has returned the userinfo fetched with the access
\* token of the other login's token response.
C26_Witness ==
    \E p, q \in Procs :
        /\ p # q /\ Unscoped_(p) /\ Unscoped_(q)
        /\ task[p].pc = "body" /\ task[p].call = "process_login"
        /\ task[p].got = AccessTok(1)
        /\ task[q].call = "process_login" /\ task[q].got = AccessTok(2)
        /\ task[p].result = Returned("openid_from_response", userinfo(AccessTok(2)))
        /\ clients[oauth_client].access_token = AccessTok(2)

\* C27 as stated: a login-URL call, from its start to its return, leaves the
\* client handle, the tokens, the captured state, the generated state and the PKCE
\* pair unchanged.
C27_LoginUrlReadOnly ==
    [][\A p \in Procs :
          (LoginCalling(p) \/ UrlReturned(p))
            => UNCHANGED <<View, generated_state, pkce>>]_vars

\* C27 amended: a login-URL call leaves the tokens, the captured state, the
\* generated state and the PKCE pair unchanged; a call that does not raise keeps
\* the client handle it finds and creates a token-free client if there is none, so
\* that a handle is there when the call has returned.
C27_LoginUrlCreatesClient ==
    /\ [][\A p \in Procs :
            (LoginCalling(p) \/ UrlReturned(p))
              => /\ UNCHANGED <<refresh_token, id_token, state, generated_state, pkce>>
                 /\ IF oauth_client # NoneV \/ task'[p].pc = "raised"
                    THEN UNCHANGED View
                    ELSE /\ oauth_client' # NoneV
                         /\ clients'[oauth_client'] = WebApplicationClient]_vars
    /\ [](\A p \in Procs :
            (InScope(p) /\ task[p].pc = "body"
                        /\ task[p].call \in {"get_login_url", "get_login_redirect"})
              => oauth_client # NoneV)

\* Inside one async scope the login URL has been built and process_login waits
\* for its token response: its start found the client the URL call had created.
C27_Witness ==
    \E p \in Procs :
        /\ InScope(p) /\ task[p].ops = 2 /\ calls = 2
        /\ task[p].call = "process_login" /\ task[p].pc = "post"
        /\ flow[p].response.location # NoUrl
        /\ "ReusedOauthClientWarning" \in task[p].warns

\* C29 as stated: a login that starts its one exchange inside an async scope gets
\* no ReusedOauthClientWarning, whatever it called earlier in that scope.
C29_NoWarningInScope ==
    [][\A p \in Procs :
          (InScope(p) /\ Starting(p))
            => "ReusedOauthClientWarning" \notin task'[p].warns]_vars

\* C30: verify_and_process of a callback that carries a code records the state of
\* the callback, the absent one too, and the state property then reads it back;
\* whatever the generated state is, the call goes on to the token request.
C30_CallbackStateRecorded ==
    [][\A p \in Procs, r \in CallbackRequests, conv \in BOOLEAN :
          (VerifyAndProcess(p, r, conv) /\ r.code_in = "query")
            => /\ state' = r.state
               /\ state_prop'.val = r.state
               /\ "UnsetStateWarning" \in state_prop'.warns <=> r.state = NoneV
               /\ task'[p].pc = "post"
               /\ task'[p].wire.kind = "token"
               /\ generated_state' = generated_state]_vars

\* The login URL was built with the caller's state while the instance held a
\* generated one; the callback brought back a third, and the token request is out.
C30_Witness ==
    \E p \in Procs :
        /\ InScope(p) /\ task[p].call = "verify_and_process" /\ task[p].pc = "post"
        /\ flow[p].response.location.state = UserState
        /\ generated_state \notin {NoneV, CallbackState}
        /\ state_prop.val = CallbackState

\* C22 as stated: the document of every adapter has exactly the three endpoint
\* keys, each with a non-empty value, and an accessor returns its key's value.
C22_ThreeKeys ==
    (provider # "SSOBase" /\ document.err # "uncalled")
      => /\ document.err = "none"
         /\ DOMAIN document.val = Keys
         /\ \A k \in Keys : bool(document.val[k])
         /\ accessed.err # "uncalled"
              => accessed = [key |-> accessed.key, err |-> "none",
                             val |-> document.val[accessed.key]]

\* C22 amended: an adapter with a literal document has the three endpoint keys in
\* it, each non-empty, and its accessors return their key's value; GitHub's has
\* the key email_endpoint besides, the others have the three only.  Google's is
\* the body the discovery URL answered with, and its accessors return what
\* dict.get finds in such a body, None if the key is not there.
C22_EndpointKeys ==
    /\ (provider \in {"fitbit", "tidal", "github"} /\ document.err # "uncalled")
         => /\ document.err = "none"
            /\ DOMAIN document.val
                 = Keys \cup (IF provider = "github" THEN {"email_endpoint"} ELSE {})
            /\ \A k \in Keys : bool(document.val[k])
            /\ accessed.err # "uncalled"
                 => accessed = [key |-> accessed.key, err |-> "none",
                                val |-> document.val[accessed.key]]
    /\ (provider = "google" /\ document.err # "uncalled")
         => document.err = "none" /\ document.val \in google_responses
    /\ (provider = "google" /\ accessed.err # "uncalled")
         => /\ accessed.err = "none"
            /\ \E d \in google_responses : accessed.val = get(d, accessed.key)

\* GitHub's document has been fetched and the userinfo accessor awaited.
C22_Witness ==
    /\ provider = "github" /\ document.err = "none"
    /\ "email_endpoint" \in DOMAIN document.val
    /\ accessed.key = "userinfo_endpoint"
    /\ accessed.val = "https://api.github.com/user"

\* C24 as stated: GitHub's converter turns the payload {email, id, login,
\* avatar_url} into OpenID(email, id, display_name=login, picture=avatar_url,
\* provider="github"), and Tidal's turns {id, firstName, lastName, username,
\* email} into the record with those values and provider="tidal".
C24_FixtureConverted ==
    /\ (provider = "github" /\ response = GithubFixture /\ openid.err # "uncalled")
         => openid = OpenID([email |-> "test@example.com", id |-> "test",
                             display_name |-> "testuser",
                             picture |-> "https://myimage", provider |-> "github"])
    /\ (provider = "tidal" /\ response = TidalFixture /\ openid.err # "uncalled")
         => openid = OpenID([id |-> "123456", first_name |-> "Test",
                             last_name |-> "User", display_name |-> "testuser",
                             email |-> "test@example.com", provider |-> "tidal"])

\* C25: Google's converter raises SSOLoginError with status 401 exactly when the
\* payload has no truthy email_verified, Fitbit's exactly when it has no user
\* object or an empty one; nothing is returned then.
C25_VerificationFailure ==
    /\ (provider = "google" /\ openid.err # "uncalled")
         => (openid = raise("SSOLoginError401")
               <=> ~bool(get(response, "email_verified")))
    /\ (provider = "fitbit" /\ openid.err # "uncalled")
         => (openid = raise("SSOLoginError401")
               <=> ("user" \notin DOMAIN response \/ DOMAIN response.user = {}))
    /\ (provider \in {"google", "fitbit"} /\ openid.err # "none")
         => \A k \in Fields : openid.val[k] = None

\* Google's converter was handed a payload with email_verified false.
C25_Witness ==
    /\ provider = "google"
    /\ get(response, "email_verified") = "False"
    /\ get(response, "email") = "test@example.com"
    /\ openid.err = "SSOLoginError401"

\* C21: an instance of the base class, which has no discovery implementation,
\* raises NotImplementedError from get_discovery_document, and verify_and_process
\* of a callback that carries a code ends with that error, returning nothing.
C21_NotImplemented ==
    /\ [](provider = "SSOBase" /\ document.err # "uncalled"
            => document = Outcome("NotImplementedError", NoDocument))
    /\ [][\A p \in Procs, r \in CallbackRequests, conv \in BOOLEAN :
            (provider = "SSOBase" /\ VerifyAndProcess(p, r, conv)
                                  /\ r.code_in = "query")
              => /\ task'[p].pc = "raised"
                 /\ task'[p].result = Raised("NotImplementedError")
                 /\ task'[p].wire = NoReq]_vars

\* As in the test: the base class used with no scope; get_discovery_document has
\* raised, and so has verify_and_process, after the SecurityWarning.
C21_Witness ==
    /\ provider = "SSOBase"
    /\ document.err = "NotImplementedError"
    /\ \E p \in Procs :
          /\ task[p].mode = "bare" /\ task[p].call = "verify_and_process"
          /\ task[p].code_in = "query"
          /\ task[p].result = Raised("NotImplementedError")
          /\ "SecurityWarning" \in task[p].warns

\* The authorization endpoint of the adapter, when discovery yields one.
Endpoints(key) == {e.val : e \in {o \in endpoint(provider, key) : o.err = "none"}}

\* C23 as stated: the URL get_login_url returns starts with the authorization
\* endpoint and carries the client id, the encoded effective redirect URI, all
\* the scopes of the instance, the state when one applies, and every parameter
\* the caller supplied.
C23_UrlCarriesEveryParam ==
    [][\A p \in Procs :
          UrlReturned(p) /\ task[p].call = "get_login_url"
            => LET url == flow'[p].response.location
               IN /\ url.base \in Endpoints("authorization_endpoint")
                  /\ url.client_id = client_id
                  /\ url.redirect_uri
                       = quote(effective_redirect_uri(flow[p].redirect_uri,
                                                      redirect_uri))
                  /\ scope # <<>> => url.scope = list_to_scope(scope)
                  /\ url.state = Placed(flow[p].url_state)
                  /\ \A k \in DOMAIN flow[p].params :
                        /\ k \in DOMAIN url.params
                        /\ url.params[k] = flow[p].params[k]]_vars

\* C23: the URL get_login_url returns starts with the authorization endpoint and
\* carries the client id, the encoded effective redirect URI, all the scopes of
\* the instance (the constructor's when given, else the adapter's), the state
\* when one applies, and every parameter the caller supplied with a truthy
\* value; a parameter with an empty value is left out, and with a parameter named
\* as one the request passes itself no URL is returned: TypeError is raised.
C23_UrlCarriesTruthyParams ==
    [][\A p \in Procs :
          /\ UrlReturned(p) /\ task[p].call = "get_login_url"
               => LET url == flow'[p].response.location
                  IN /\ url.base \in Endpoints("authorization_endpoint")
                     /\ url.client_id = client_id
                     /\ url.redirect_uri
                          = quote(effective_redirect_uri(flow[p].redirect_uri,
                                                         redirect_uri))
                     /\ scope # <<>> => url.scope = list_to_scope(scope)
                     /\ scope \in {class_scope(provider), <<"openid", "additional">>}
                     /\ url.state = Placed(flow[p].url_state)
                     /\ DOMAIN url.params
                          = {k \in DOMAIN flow[p].params : flow[p].params[k] # ""}
                     /\ \A k \in DOMAIN url.params :
                           url.params[k] = flow[p].params[k]
          /\ task[p].pc = "authorization_endpoint" /\ task'[p].pc # task[p].pc
               /\ clash(flow[p].params)
               => task'[p].pc = "raised"
                    /\ task'[p].result.src \in {"TypeError", "NotImplementedError"}]_vars

\* get_login_url returned a URL on an adapter constructed with the scopes openid
\* and additional, to a caller that passed a state and the two parameters
\* access_type and param: the URL carries both scopes, the state and both
\* parameters.
C23_Witness ==
    \E p \in Procs :
        /\ task[p].call = "get_login_url"
        /\ flow[p].response.location # NoUrl
        /\ flow[p].state = UserState
        /\ flow[p].params = [access_type |-> "offline", param |-> "value"]
        /\ flow[p].response.location.scope = "openid+additional"
        /\ flow[p].response.location.state = UserState
        /\ flow[p].response.location.params = flow[p].params

\* The refresh token of the token response whose access token is tok and whose ID
\* token is idt: a response carries both the refresh and the ID token or neither.
RefreshOf(tok, idt) == IF idt = NoneV THEN NoneV ELSE tok + 1

C32_FetchedOnce == \A p \in Procs : task[p].fetched <= 1

\* The step is caller p's call of process_login, directly or from
\* verify_and_process past its check for a code.
Exchanging(p) ==
    /\ task'[p].ops # task[p].ops
    /\ task'[p].call \in {"process_login", "verify_and_process"}
    /\ task'[p].result # Raised("SSOLoginError400")

\* C33 as stated: a process_login for which no token endpoint resolves returns
\* None without raising, sends no token request and no userinfo request, and
\* leaves the refresh token and the ID token unset.
C33_SilentNoResult ==
    [][\A p \in Procs :
          Exchanging(p) /\ task'[p].pc # "post"
            => /\ task'[p].pc = "body"
               /\ task'[p].result = Returned("token_url", NoneV)
               /\ task'[p].wire = NoReq
               /\ refresh_token' = NoneV /\ id_token' = NoneV]_vars

\* What does hold: with OAUTHLIB_INSECURE_TRANSPORT set the call is silent as
\* stated; without it the call raises AttributeError; either way no request goes
\* out and the two tokens are unset.
C33_SilentIfInsecureTransport ==
    [][\A p \in Procs :
          Exchanging(p) /\ task'[p].pc # "post"
            => /\ task'[p].result = IF insecure_transport
                                    THEN Returned("token_url", NoneV)
                                    ELSE Raised("AttributeError")
               /\ task'[p].pc = IF insecure_transport THEN "body" ELSE "raised"
               /\ task'[p].wire = NoReq
               /\ refresh_token' = NoneV /\ id_token' = NoneV]_vars

\* process_login, the first call of its scope, returned None for want of a token
\* endpoint.
C33_Witness ==
    \E p \in Procs :
        /\ task[p].result = Returned("token_url", NoneV)
        /\ task[p].pc = "body" /\ task[p].ops = 1
        /\ refresh_token = NoneV /\ id_token = NoneV

\* The step sends caller p's token request.
TokenSent(p) == task[p].wire.kind # "token" /\ task'[p].wire.kind = "token"

C35_AuthorizationResponse ==
    [][\A p \in Procs :
          TokenSent(p)
            => LET sent == task'[p].wire.authorization_response
               IN /\ ~allow_insecure_http => sent[1] = "https://"
                  /\ ~allow_insecure_http
                       => /\ Len(sent) = Len(request_url)
                          /\ \A i \in 2 .. 4 : sent[i] = request_url[i]
                  /\ allow_insecure_http => sent = request_url]_vars

\* A token request went out for a callback that arrived over http: on an
\* instance that does not allow insecure transport its authorization response
\* starts with https.
C35_Witness ==
    \E p \in Procs :
        /\ task[p].wire.kind = "token"
        /\ ~allow_insecure_http /\ request_url = HttpUrl
        /\ task[p].wire.authorization_response
             = <<"https://", "localhost", "/callback", "?code=code&state=state">>

\* C36: with every login inside its own async scope, the token request of a
\* callback that brings the cookie of the redirect the browser followed carries
\* that cookie's verifier as code_verifier, and its S256 challenge is the
\* code_challenge of that redirect's URL, whatever pair the instance holds by then.
C36_CallbackVerifier ==
    [][\A p \in Procs :
          /\ cfg.uses_pkce /\ jar # NoJar
          /\ TokenSent(p) /\ task'[p].call = "verify_and_process"
          /\ "UserWarning" \notin task'[p].warns
          => /\ task'[p].wire.verifier = jar.cookie
             /\ S256(task'[p].wire.verifier) = jar.code_challenge]_vars

\* The token request of a callback is on the wire with the verifier of the
\* redirect the browser followed, handled in a later scope whose entry
\* regenerated the pair of the instance.
C36_Witness ==
    \E p \in Procs :
        /\ cfg.uses_pkce /\ InScope(p)
        /\ task[p].call = "verify_and_process" /\ task[p].wire.kind = "token"
        /\ task[p].wire.verifier = jar.cookie
        /\ S256(jar.cookie) = jar.code_challenge
        /\ pkce_code_verifier # jar.cookie

\* C37 as stated: process_login leaves the params and headers mappings of its
\* caller as they were, so that the token request of a callback that brings no
\* cookie carries no code_verifier.
C37_MappingsUnchanged ==
    [][/\ caller_params' = caller_params
       /\ caller_headers' = caller_headers
       /\ \A p \in Procs :
             TokenSent(p) /\ "UserWarning" \in task'[p].warns
               => task'[p].wire.verifier = NoneV]_vars

\* The token request of a callback that brought no cookie carries the
\* code_verifier an earlier login left in the params dict of the caller.
C37_CarriedOver ==
    \E p \in Procs :
        /\ task[p].wire.kind = "token" /\ "UserWarning" \in task[p].warns
        /\ task[p].wire.verifier # NoneV
        /\ "code_verifier" \in DOMAIN caller_params
        /\ task[p].wire.verifier = caller_params.code_verifier

\* C38 as stated: every login that waits to enter the async scope eventually
\* enters it.
C38_WaitingEnters ==
    \A q \in 1 .. MaxWaiting : (task[q].pc = "waiting") ~> InScope(q)

\* C38: the queue of the lock holds the waiting logins in the order in which they
\* started waiting (a login joins it at the end, and the others keep their order);
\* a login stops waiting only by entering the scope or by being cancelled; when it
\* enters it is the first of the queue, so that no login that started waiting
\* before it is still waiting; and every waiting login eventually stops waiting.
C38_WaitersEnterInOrder ==
    /\ [][\A q \in Procs :
             /\ task[q].pc # "waiting" /\ task'[q].pc = "waiting"
                  => login_lock'.waiters = Append(login_lock.waiters, q)
             /\ LET Stay == {v \in Procs : task[v].pc = "waiting" /\ task'[v].pc = "waiting"}
                IN SelectSeq(login_lock'.waiters, LAMBDA w : w \in Stay)
                     = SelectSeq(login_lock.waiters, LAMBDA w : w \in Stay)
             /\ task[q].pc = "waiting" /\ task'[q].pc # "waiting"
               => \/ /\ InScope(q)'
                     /\ Head(login_lock.waiters) = q
                  \/ /\ task'[q].pc = "idle"
                     /\ login_lock'.locked = login_lock.locked]_vars
    /\ \A q \in 1 .. MaxWaiting : (task[q].pc = "waiting") ~> (task[q].pc # "waiting")

\* Two logins wait while a third is inside the scope.
C38_Witness ==
    \E p, q, r \in Procs :
        /\ InScope(r) /\ task[p].pc = "waiting" /\ task[q].pc = "waiting"
        /\ login_lock.waiters = <<p, q>>

\* C39 as stated: once a caller has entered the async scope of the instance again
\* from inside its own scope, its inner entry never completes and no other login
\* ever gets into the scope.
C39_OthersWaitForever ==
    \A p \in 1 .. MaxWaiting :
        [](task[p].pc = "reentering"
             => [](/\ task[p].pc # "nested"
                   /\ \A q \in Procs : q # p => ~InScope(q)))

\* C39: the lock is not reentrant.  The inner entry of a caller that is inside its
\* own scope never completes; while it waits there the lock stays held, the wake-up
\* of no waiter is possible, every other login stays outside the scope (waiting,
\* or cancelled out of the queue), and the caller itself leaves the inner entry
\* only by a CancelledError raised in its outer body.
C39_NotReentrant ==
    [][\A p \in Procs :
          /\ task'[p].pc # "nested"
          /\ task[p].pc = "reentering" =>
               /\ login_lock.locked /\ login_lock'.locked
               /\ \A q \in Procs : ~can_resume(login_lock, q)
               /\ task'[p].pc \in {"reentering", "raised"}
               /\ task'[p].pc = "raised" => task'[p].result = Raised("CancelledError")
               /\ \A q \in Procs \ {p} :
                      /\ ~InScope(q) /\ ~InScope(q)'
                      /\ task[q].pc = "waiting" => task'[q].pc \in {"waiting", "idle"}]_vars

\* A caller waits in its inner entry, queued behind a login that came before it.
C39_Witness ==
    \E p, q \in Procs :
        /\ p # q
        /\ task[p].pc = "reentering"
        /\ task[q].pc = "waiting"
        /\ login_lock.waiters = <<q, p>>

\* C40: in every state between two steps the in-scope flag is true exactly when
\* the lock is held, and the lock is held exactly when a caller is inside an async
\* scope.  The flag changes only in the step in which a caller gets into the async
\* scope, where it becomes true together with the lock, and in the step in which
\* that caller leaves it, where it becomes false together with the lock; no step
\* of a caller of the synchronous scope or of no scope, its entry, calls and exit,
\* changes it.
C40_FlagFollowsLock ==
    /\ [](/\ in_stack <=> login_lock.locked
          /\ in_stack <=> \E p \in Procs : InScope(p))
    /\ [][/\ in_stack' # in_stack =>
                \E p \in Procs :
                    \/ /\ ~InScope(p) /\ InScope(p)'
                       /\ ~login_lock.locked /\ login_lock'.locked /\ in_stack'
                    \/ /\ InScope(p) /\ ~InScope(p)'
                       /\ login_lock.locked /\ ~login_lock'.locked /\ ~in_stack'
          /\ \A q \in Procs :
                (Acted(q) /\ (Unscoped_(q) \/ Unscoped_(q)')) => in_stack' = in_stack]_vars

\* A caller of the synchronous scope has entered and made a call while another
\* login is inside the async scope: the flag is still set.
C40_Witness ==
    \E p, q \in Procs :
        /\ InScope(p) /\ in_stack
        /\ task[q].mode = "sync" /\ task[q].pc = "body" /\ task[q].ops > 0

====
